---- MODULE Spec2Model ----
(***************************************************************************)
(* A model of eachtools.py: "each" containers that distribute operations   *)
(* over their members, aligning operands by position or key and            *)
(* broadcasting scalars and one-element operands.                          *)
(*                                                                         *)
(* Python objects are records.  A collection is                            *)
(*   [cls, tag, keys, vals]                                                *)
(* cls  : "none" for a plain Python object, or the wrapper class           *)
(*        "EachContainer" / "EachMapping" / "EachSet";                     *)
(* tag  : the type of the (underlying) collection: "scalar", "list",       *)
(*        "tuple", "dict", "set";                                          *)
(* keys : the keys of a dict in insertion order (members of a set in       *)
(*        iteration order), <<>> otherwise;                                *)
(* vals : the members in iteration order (TLA+ position i+1 is Python      *)
(*        position i).                                                     *)
(* An iterator is a sequence of cells [err, v]: a cell with err # ""       *)
(* is a next() that raises err (generators are lazy, so a failing lookup   *)
(* surfaces only when the iteration reaches it).                           *)
(***************************************************************************)
EXTENDS Integers, Sequences, FiniteSets, TLC

\* ---- bounds of the model ----
MaxLen == 3
MaxKeys == 2

\* member values, dictionary keys (0 and 1 are also positions; 7 is not)
Vals == {0, 1}
Keys == {0, 1, 7}

NoErr == ""

Min(a, b) == IF a < b THEN a ELSE b

\* F applied to the value of x, x being evaluated once (a local variable)
With(x, F(_)) == CHOOSE r \in {F(v) : v \in {x}} : TRUE

Range(s) == {s[i] : i \in 1..Len(s)}

SeqsUpTo(S, n) == UNION {[1..k -> S] : k \in 0..n}

DistinctSeqs(S, n) == {s \in SeqsUpTo(S, n) : \A i, j \in 1..Len(s) : i # j => s[i] # s[j]}

\* range(n) as the sequence 0, 1, ..., n-1
RangeSeq(n) == [i \in 1..n |-> i - 1]

Obj(cls, tag, keys, vals) == [cls |-> cls, tag |-> tag, keys |-> keys, vals |-> vals]

Scalar(v) == Obj("none", "scalar", <<>>, <<v>>)

Cell(e, v) == [err |-> e, v |-> v]

OkCells(vs) == [i \in 1..Len(vs) |-> Cell(NoErr, vs[i])]

\* isinstance(s, Mapping): a dict, or an EachMapping / EachSet wrapper
IsMapping(s) == s.cls \in {"EachMapping", "EachSet"} \/ (s.cls = "none" /\ s.tag = "dict")

IsEachContainer(s) == s.cls # "none"

\* len(s)
PyLen(s) == Len(s.vals)

\* hasattr(type(whole), '__setitem__')
HasSetItem(tag) == tag \in {"list", "dict"}

\* hasattr(type(whole), '__getitem__')
HasGetItem(tag) == tag \in {"list", "tuple", "dict"}

\* position of key k in the key sequence ks, 0 when absent
KeyPos(ks, k) == IF \E j \in 1..Len(ks) : ks[j] = k THEN CHOOSE j \in 1..Len(ks) : ks[j] = k ELSE 0

\* whole[i] for an underlying collection of the given tag
WholeGet(tag, keys, vals, i) ==
    CASE tag = "dict" ->
            IF KeyPos(keys, i) # 0 THEN Cell(NoErr, vals[KeyPos(keys, i)]) ELSE Cell("KeyError", 0)
      [] tag \in {"list", "tuple"} ->
            IF i >= 0 /\ i < Len(vals) THEN Cell(NoErr, vals[i + 1])
            ELSE IF i < 0 /\ i >= -Len(vals) THEN Cell(NoErr, vals[Len(vals) + i + 1])
            ELSE Cell("IndexError", 0)
      [] OTHER -> Cell("TypeError", 0)

\* Fault: an EachSet read through its underlying set, which has no [] 
SourceGet_whole(s, i) == WholeGet(s.tag, s.keys, s.vals, i)

\* source[i] for a scalar (non-iterable, non-slice) index i, as the alignment
\* engine reads it: EachSet.__getitem__ returns the member itself,
\* EachContainer.__getitem__ and plain collections read whole[i]
SourceGet(s, i) ==
    IF s.cls = "EachSet"
    THEN IF i \in Range(s.vals) THEN Cell(NoErr, i) ELSE Cell("KeyError", 0)
    ELSE WholeGet(s.tag, s.keys, s.vals, i)

\* consume an iterator of cells: [err, vals], stopping at the first error
Collect(cells) ==
    With(cells, LAMBDA cs :
        LET bad == {k \in 1..Len(cs) : cs[k].err # NoErr}
            stop == IF bad = {} THEN Len(cs) + 1 ELSE CHOOSE k \in bad : \A k2 \in bad : k <= k2
        IN  [err |-> IF bad = {} THEN NoErr ELSE cs[stop].err,
             vals |-> [k \in 1..(stop - 1) |-> cs[k].v]])

\* ---- Broadcasting ----

as_sized_iterable(source) ==
    IF source.tag = "scalar" THEN Obj("none", "tuple", <<>>, source.vals) ELSE source

\* indices are [isRange, idx]: range(n) or a keys view
RangeIndices(n) == [isRange |-> TRUE, idx |-> RangeSeq(n)]

KeyIndices(model) == [isRange |-> FALSE, idx |-> IF model.cls = "EachSet" THEN model.vals ELSE model.keys]

\* Fault: broadcast_to_indices without its length check (a short source is
\* simply iterated, and the zip ends with it)
broadcast_to_indices_unchecked(source, n, indices) ==
    IF IsMapping(source)
    THEN [err |-> NoErr, cells |-> [j \in 1..Len(indices.idx) |-> SourceGet(source, indices.idx[j])]]
    ELSE IF PyLen(source) = 1
    THEN [err |-> NoErr, cells |-> [j \in 1..n |-> Cell(NoErr, source.vals[1])]]
    ELSE IF ~indices.isRange
    THEN [err |-> NoErr, cells |-> [j \in 1..Len(indices.idx) |-> SourceGet(source, indices.idx[j])]]
    ELSE [err |-> NoErr, cells |-> OkCells(source.vals)]

\* Fault: broadcast_to_indices demanding exactly n members (length != n)
broadcast_to_indices_exact(source, n, indices) ==
    IF IsMapping(source)
    THEN [err |-> NoErr, cells |-> [j \in 1..Len(indices.idx) |-> SourceGet(source, indices.idx[j])]]
    ELSE IF PyLen(source) = 1
    THEN [err |-> NoErr, cells |-> [j \in 1..n |-> Cell(NoErr, source.vals[1])]]
    ELSE IF ~indices.isRange
    THEN [err |-> NoErr, cells |-> [j \in 1..Len(indices.idx) |-> SourceGet(source, indices.idx[j])]]
    ELSE IF PyLen(source) # n
    THEN [err |-> "ValueError", cells |-> <<>>]
    ELSE [err |-> NoErr, cells |-> OkCells(source.vals)]

\* returns [err, cells]: err is raised by the call itself, cells is the iterator
broadcast_to_indices(source, n, indices) ==
    IF IsMapping(source)
    THEN [err |-> NoErr, cells |-> [j \in 1..Len(indices.idx) |-> SourceGet(source, indices.idx[j])]]
    ELSE IF PyLen(source) = 1
    THEN [err |-> NoErr, cells |-> [j \in 1..n |-> Cell(NoErr, source.vals[1])]]
    ELSE IF ~indices.isRange
    THEN [err |-> NoErr, cells |-> [j \in 1..Len(indices.idx) |-> SourceGet(source, indices.idx[j])]]
    ELSE IF PyLen(source) < n
    THEN [err |-> "ValueError", cells |-> <<>>]
    ELSE [err |-> NoErr, cells |-> OkCells(source.vals)]

\* zip(*iterators): tuples are produced until an iterator is exhausted or a
\* next() raises; iterators are advanced in argument order.
\* Returns [err, tuples]: the tuples yielded before the stop, and the error
\* raised at the stop ("" when the zip simply ends).
RECURSIVE ZipFrom(_, _, _)
ZipFrom(its, k, acc) ==
    LET N == Len(its)
        \* first iterator, in order, that is exhausted or raises at position k
        stops == {j \in 1..N : Len(its[j]) < k \/ its[j][k].err # NoErr}
        first == CHOOSE j \in stops : \A j2 \in stops : j <= j2
    IN  IF N = 0 THEN [err |-> NoErr, tuples |-> acc]
        ELSE IF stops # {}
        THEN IF Len(its[first]) < k THEN [err |-> NoErr, tuples |-> acc]
             ELSE [err |-> its[first][k].err, tuples |-> acc]
        ELSE ZipFrom(its, k + 1, Append(acc, [j \in 1..N |-> its[j][k].v]))

Zip(iterators) == With(iterators, LAMBDA its : ZipFrom(its, 1, <<>>))

\* Fault: the first source whose length is not 1, keyed or not
FirstNonBroadcast_lengthonly(sources) ==
    LET cand == {j \in 1..Len(sources) : PyLen(sources[j]) # 1}
    IN  IF cand = {} THEN 1 ELSE CHOOSE j \in cand : \A j2 \in cand : j <= j2

\* first index of a source that cannot be broadcast, 1 when there is none
FirstNonBroadcast(sources) ==
    LET cand == {j \in 1..Len(sources) : PyLen(sources[j]) # 1 \/ IsMapping(sources[j])}
    IN  IF cand = {} THEN 1 ELSE CHOOSE j \in cand : \A j2 \in cand : j <= j2

\* broadcast_together(*sources, match_first): returns [err, tuples, eager]
\* eager = TRUE when err was raised by the call, before any tuple was yielded
broadcast_together(srcs, match_first) ==
    IF Len(srcs) = 0 THEN [err |-> NoErr, tuples |-> <<>>, eager |-> FALSE]
    ELSE
    With([j \in 1..Len(srcs) |-> as_sized_iterable(srcs[j])], LAMBDA sources :
    With(IF match_first THEN sources[1] ELSE sources[FirstNonBroadcast(sources)], LAMBDA model :
    With(IF IsMapping(model) /\ \A j \in 1..Len(sources) : PyLen(sources[j]) = 1 \/ IsMapping(sources[j])
         THEN KeyIndices(model)
         ELSE RangeIndices(PyLen(model)), LAMBDA indices :
    With([j \in 1..Len(sources) |-> broadcast_to_indices(sources[j], PyLen(model), indices)], LAMBDA its :
        LET bad == {j \in 1..Len(sources) : its[j].err # NoErr}
        IN  IF bad # {}
            THEN [err |-> its[CHOOSE j \in bad : \A j2 \in bad : j <= j2].err, tuples |-> <<>>, eager |-> TRUE]
            ELSE With(Zip([j \in 1..Len(sources) |-> its[j].cells]), LAMBDA z :
                      [err |-> z.err, tuples |-> z.tuples, eager |-> FALSE])))))

with_matched_version_of(srcs) == broadcast_together(srcs, TRUE)

\* Fault: a keyed model always aligns by its keys
BroadcastHandler_modelkeys(srcs, match_first) ==
    With([j \in 1..Len(srcs) |-> as_sized_iterable(srcs[j])], LAMBDA sources :
    With(IF match_first THEN sources[1] ELSE sources[FirstNonBroadcast(sources)], LAMBDA model :
        [sources |-> sources,
         E |-> sources[1],
         model |-> model,
         n |-> PyLen(model),
         indices |-> IF IsMapping(model) THEN KeyIndices(model) ELSE RangeIndices(PyLen(model))]))

\* BroadcastHandler.__init__: the record B
BroadcastHandler(srcs, match_first) ==
    With([j \in 1..Len(srcs) |-> as_sized_iterable(srcs[j])], LAMBDA sources :
    With(IF match_first THEN sources[1] ELSE sources[FirstNonBroadcast(sources)], LAMBDA model :
        [sources |-> sources,
         E |-> sources[1],
         model |-> model,
         n |-> PyLen(model),
         indices |-> IF IsMapping(model) /\ \A j \in 1..Len(sources) : PyLen(sources[j]) = 1 \/ IsMapping(sources[j])
                     THEN KeyIndices(model)
                     ELSE RangeIndices(PyLen(model))]))

\* Fault: BroadcastHandler.__iter__ without the length check on its sources
BroadcastHandler_iter_unchecked(B) ==
    With([j \in 1..Len(B.sources) |-> broadcast_to_indices_unchecked(B.sources[j], B.n, B.indices)], LAMBDA its :
        With(Zip([j \in 1..Len(B.sources) |-> its[j].cells]), LAMBDA z :
            [err |-> z.err, tuples |-> z.tuples, eager |-> FALSE]))

\* BroadcastHandler.__iter__: [err, tuples, eager]
BroadcastHandler_iter(B) ==
    With([j \in 1..Len(B.sources) |-> broadcast_to_indices(B.sources[j], B.n, B.indices)], LAMBDA its :
        LET bad == {j \in 1..Len(B.sources) : its[j].err # NoErr}
        IN  IF bad # {}
            THEN [err |-> its[CHOOSE j \in bad : \A j2 \in bad : j <= j2].err, tuples |-> <<>>, eager |-> TRUE]
            ELSE With(Zip([j \in 1..Len(B.sources) |-> its[j].cells]), LAMBDA z :
                      [err |-> z.err, tuples |-> z.tuples, eager |-> FALSE]))

\* BroadcastHandler.__call__(it): it is [err, vals], the values the generator
\* yields and the error that ends it.  Returns the new container.
NoObj == Obj("none", "none", <<>>, <<>>)

Ret(err, kind, obj, tuples, isSelf, eager, written) ==
    [err |-> err, kind |-> kind, obj |-> obj, tuples |-> tuples, isSelf |-> isSelf,
     eager |-> eager, written |-> written]

RetErr(err, eager) == Ret(err, "none", NoObj, <<>>, FALSE, eager, <<>>)

RetObj(obj) == Ret(NoErr, "container", obj, <<>>, FALSE, FALSE, <<>>)

RetValue(v) == Ret(NoErr, "value", Scalar(v), <<>>, FALSE, FALSE, <<>>)

RetTuples(z) == Ret(z.err, "tuples", NoObj, z.tuples, FALSE, z.eager, <<>>)

\* Fault: B(it) always building a positional container
BroadcastHandler_call_positional(B, it) ==
    IF it.err # NoErr THEN RetErr(it.err, FALSE)
    ELSE RetObj(Obj("EachContainer", "list", <<>>, it.vals))

BroadcastHandler_call(B, it) ==
    IF it.err # NoErr THEN RetErr(it.err, FALSE)
    ELSE IF B.indices.isRange
    THEN RetObj(Obj("EachContainer", "list", <<>>, it.vals))
    ELSE LET m == Min(Len(B.indices.idx), Len(it.vals))
         IN  RetObj(Obj("EachMapping", "dict", SubSeq(B.indices.idx, 1, m), SubSeq(it.vals, 1, m)))

\* the per-member operation of an operator: s op o
PyOp(opname, s, o) ==
    CASE opname = "add" -> Cell(NoErr, s + o)
      [] opname = "sub" -> Cell(NoErr, s - o)
      [] opname = "floordiv" -> IF o = 0 THEN Cell("ZeroDivisionError", 0) ELSE Cell(NoErr, s \div o)

\* Fault: a reflected operator computing s op o
OpGenerator_unreflected(B, opname, reflected) ==
    With(BroadcastHandler_iter(B), LAMBDA z :
    With(Collect([k \in 1..Len(z.tuples) |-> PyOp(opname, z.tuples[k][1], z.tuples[k][2])]), LAMBDA c :
        [err |-> IF c.err # NoErr THEN c.err ELSE z.err, vals |-> c.vals, eager |-> z.eager]))

\* the generator (s op o for s, o in B), or (o op s for s, o in B) when
\* reflected: [err, vals, eager].  Creating the generator calls iter(B), so an
\* error of iter(B) is raised before anything is consumed.
OpGenerator(B, opname, reflected) ==
    With(BroadcastHandler_iter(B), LAMBDA z :
    With(Collect([k \in 1..Len(z.tuples) |->
                    IF reflected THEN PyOp(opname, z.tuples[k][2], z.tuples[k][1])
                    ELSE PyOp(opname, z.tuples[k][1], z.tuples[k][2])]), LAMBDA c :
        [err |-> IF c.err # NoErr THEN c.err ELSE z.err, vals |-> c.vals, eager |-> z.eager]))

\* EachContainer.__add__, __sub__, ... and their reflected forms
BinaryOp(self, other, opname, reflected) ==
    With(BroadcastHandler(<<self, other>>, FALSE), LAMBDA B :
    With(OpGenerator(B, opname, reflected), LAMBDA it :
        IF it.eager THEN RetErr(it.err, TRUE) ELSE BroadcastHandler_call(B, it)))

\* whole[index] = value on a list or a dict: [keys, vals]
WholeSet(tag, keys, vals, index, value) ==
    IF tag = "dict"
    THEN IF KeyPos(keys, index) # 0
         THEN [keys |-> keys, vals |-> [vals EXCEPT ![KeyPos(keys, index)] = value]]
         ELSE [keys |-> Append(keys, index), vals |-> Append(vals, value)]
    ELSE [keys |-> keys, vals |-> [vals EXCEPT ![index + 1] = value]]

\* for index, value in zip(indices, vs): whole[index] = value
RECURSIVE WriteSlots(_, _, _, _, _, _)
WriteSlots(tag, keys, vals, indices, vs, k) ==
    IF k > Len(indices) \/ k > Len(vs) THEN [keys |-> keys, vals |-> vals]
    ELSE LET w == WholeSet(tag, keys, vals, indices[k], vs[k])
         IN  WriteSlots(tag, w.keys, w.vals, indices, vs, k + 1)

\* EachContainer.__setattr__(self, attr, value): setattr(m, attr, v) for the
\* pairs of with_matched_version_of(self, value).  accepts: whether the
\* members are objects that take new attributes (an int does not).
\* Returns [err, written]: the values assigned to members' attributes.
EachContainer_setattr(self, value, accepts) ==
    With(with_matched_version_of(<<self, value>>), LAMBDA z :
        IF z.eager THEN [err |-> z.err, written |-> <<>>]
        ELSE IF Len(z.tuples) > 0 /\ ~accepts THEN [err |-> "AttributeError", written |-> <<>>]
        ELSE [err |-> z.err, written |-> [k \in 1..Len(z.tuples) |-> z.tuples[k][2]]])

\* Fault: in_place writing slot k of the whole for the k-th value
\* (enumerate(it) in place of zip(B.indices, it))
BroadcastHandler_in_place_enumerate(B, it, accepts) ==
    LET E == B.E
    IN  IF HasSetItem(E.tag)
        THEN With(WriteSlots(E.tag, E.keys, E.vals, RangeSeq(Len(it.vals)), it.vals, 1), LAMBDA w :
                 [ret |-> IF it.err # NoErr THEN RetErr(it.err, FALSE)
                          ELSE Ret(NoErr, "container", [E EXCEPT !.keys = w.keys, !.vals = w.vals],
                                   <<>>, TRUE, FALSE, <<>>),
                  E |-> [E EXCEPT !.keys = w.keys, !.vals = w.vals]])
        ELSE IF it.err # NoErr THEN [ret |-> RetErr(it.err, FALSE), E |-> E]
             ELSE With(EachContainer_setattr(E, Obj("EachContainer", "list", <<>>, it.vals), accepts), LAMBDA sa :
                      [ret |-> IF sa.err # NoErr
                               THEN Ret(sa.err, "none", NoObj, <<>>, FALSE, FALSE, sa.written)
                               ELSE Ret(NoErr, "container", E, <<>>, TRUE, FALSE, sa.written),
                       E |-> E])

\* Fault: in_place writing nothing when the generator fails
BroadcastHandler_in_place_atomic(B, it, accepts) ==
    LET E == B.E
    IN  IF it.err # NoErr THEN [ret |-> RetErr(it.err, FALSE), E |-> E]
        ELSE IF HasSetItem(E.tag)
        THEN With(WriteSlots(E.tag, E.keys, E.vals, B.indices.idx, it.vals, 1), LAMBDA w :
                 [ret |-> Ret(NoErr, "container", [E EXCEPT !.keys = w.keys, !.vals = w.vals],
                              <<>>, TRUE, FALSE, <<>>),
                  E |-> [E EXCEPT !.keys = w.keys, !.vals = w.vals]])
        ELSE With(EachContainer_setattr(E, Obj("EachContainer", "list", <<>>, it.vals), accepts), LAMBDA sa :
                 [ret |-> IF sa.err # NoErr
                          THEN Ret(sa.err, "none", NoObj, <<>>, FALSE, FALSE, sa.written)
                          ELSE Ret(NoErr, "container", E, <<>>, TRUE, FALSE, sa.written),
                  E |-> E])

\* BroadcastHandler.in_place(it): returns [ret, E] with E the first source
\* after the call
BroadcastHandler_in_place(B, it, accepts) ==
    LET E == B.E
    IN  IF HasSetItem(E.tag)
        THEN With(WriteSlots(E.tag, E.keys, E.vals, B.indices.idx, it.vals, 1), LAMBDA w :
                 [ret |-> IF it.err # NoErr THEN RetErr(it.err, FALSE)
                          ELSE Ret(NoErr, "container", [E EXCEPT !.keys = w.keys, !.vals = w.vals],
                                   <<>>, TRUE, FALSE, <<>>),
                  E |-> [E EXCEPT !.keys = w.keys, !.vals = w.vals]])
        ELSE \* E.whole = E._each_output_type(it) goes through EachContainer.__setattr__
             IF it.err # NoErr THEN [ret |-> RetErr(it.err, FALSE), E |-> E]
             ELSE With(EachContainer_setattr(E, Obj("EachContainer", "list", <<>>, it.vals), accepts), LAMBDA sa :
                      [ret |-> IF sa.err # NoErr
                               THEN Ret(sa.err, "none", NoObj, <<>>, FALSE, FALSE, sa.written)
                               ELSE Ret(NoErr, "container", E, <<>>, TRUE, FALSE, sa.written),
                       E |-> E])

\* Fault: an in-place operator aligning without the length check
InPlaceOp_unchecked(self, other, opname, accepts) ==
    With(BroadcastHandler(<<self, other>>, TRUE), LAMBDA B :
    With(BroadcastHandler_iter_unchecked(B), LAMBDA z :
    With(Collect([k \in 1..Len(z.tuples) |-> PyOp(opname, z.tuples[k][1], z.tuples[k][2])]), LAMBDA c :
        BroadcastHandler_in_place(B, [err |-> IF c.err # NoErr THEN c.err ELSE z.err, vals |-> c.vals,
                                      eager |-> FALSE], accepts))))

\* EachContainer.__iadd__, __isub__, ...
InPlaceOp(self, other, opname, accepts) ==
    With(BroadcastHandler(<<self, other>>, TRUE), LAMBDA B :
    With(OpGenerator(B, opname, FALSE), LAMBDA it :
        IF it.eager THEN [ret |-> RetErr(it.err, TRUE), E |-> self]
        ELSE BroadcastHandler_in_place(B, it, accepts)))

\* ---- Indexing: EachContainer.__getitem__ ----

\* A selector is [tag, keys, vals]: tag "int" (one scalar index), "list" (a
\* non-tuple sequence) or "dict" (a mapping); its values are [t, v] with
\* t = "bool" for the literals False/True (v = 0/1) and t = "int" otherwise.
\* A boolean used as an index is the integer v, as in Python.
Sel(tag, keys, vals) == [tag |-> tag, keys |-> keys, vals |-> vals]

SelInt(i) == Sel("int", <<>>, <<[t |-> "int", v |-> i]>>)

NoSel == Sel("none", <<>>, <<>>)

\* x is True or x is False
IsBool(x) == x.t = "bool"

\* x is True
IsTrue(x) == x.t = "bool" /\ x.v = 1

\* all(x is True or x is False for x in xs)
AllBool(xs) == \A i \in 1..Len(xs) : IsBool(xs[i])

\* (x for x, b in zip(s, keep) if b), from position k on
RECURSIVE Filter(_, _, _)
Filter(s, keep, k) ==
    IF k > Len(s) \/ k > Len(keep) THEN <<>>
    ELSE IF keep[k] THEN <<s[k]>> \o Filter(s, keep, k + 1)
    ELSE Filter(s, keep, k + 1)

\* selector[key] for a mapping selector: the value cell, or KeyError
SelGet(sel, key) ==
    IF KeyPos(sel.keys, key) # 0 THEN [err |-> NoErr, x |-> sel.vals[KeyPos(sel.keys, key)]]
    ELSE [err |-> "KeyError", x |-> [t |-> "int", v |-> 0]]

\* the keys under which self.items() lists the members
ItemKeys(self) == IF self.cls = "EachSet" THEN self.vals
                  ELSE IF self.tag = "dict" THEN self.keys
                  ELSE RangeSeq(Len(self.vals))

\* output_type(domain, nested=...) for a dict domain
WrapDict(cls, keys, vals) ==
    IF cls = "EachSet" THEN Obj("EachSet", "dict_keys", keys, keys)
    ELSE Obj(cls, "dict", keys, vals)

\* Fault: a mapping mask always producing a positional container
GetMaskMapping_positional(self, sel) ==
    With(ItemKeys(self), LAMBDA ks :
    With([k \in 1..Len(ks) |-> SelGet(sel, ks[k])], LAMBDA looked :
    With([k \in 1..Len(ks) |-> looked[k].err = NoErr /\ IsTrue(looked[k].x)], LAMBDA keep :
        IF \E k \in 1..Len(ks) : looked[k].err # NoErr THEN RetErr("KeyError", FALSE)
        ELSE RetObj(Obj("EachContainer", "list", <<>>, Filter(self.vals, keep, 1))))))

\* E[mapping] whose values are all booleans: a mask given as a mapping
GetMaskMapping(self, sel) ==
    With(ItemKeys(self), LAMBDA ks :
    With([k \in 1..Len(ks) |-> SelGet(sel, ks[k])], LAMBDA looked :
    With([k \in 1..Len(ks) |-> looked[k].err = NoErr /\ IsTrue(looked[k].x)], LAMBDA keep :
        IF \E k \in 1..Len(ks) : looked[k].err # NoErr THEN RetErr("KeyError", FALSE)
        ELSE IF IsMapping(self)
        THEN RetObj(WrapDict(self.cls, Filter(ks, keep, 1), Filter(self.vals, keep, 1)))
        ELSE RetObj(Obj("EachContainer", "list", <<>>, Filter(self.vals, keep, 1))))))

\* E[mapping] otherwise: the mapping sends new keys to old indices
GetRemap(self, sel) ==
    With(IF HasGetItem(self.tag) THEN self.tag ELSE "tuple", LAMBDA tag :
    With(Collect([k \in 1..Len(sel.keys) |-> WholeGet(tag, self.keys, self.vals, sel.vals[k].v)]), LAMBDA c :
        IF c.err # NoErr THEN RetErr(c.err, FALSE)
        ELSE RetObj(Obj("EachContainer", "dict", sel.keys, c.vals))))

\* Fault: the mask test without the test for booleans
IsSeqMask_lengthonly(self, sel) == Len(sel.vals) = Len(self.vals)

\* Fault: the mask test without the length comparison
IsSeqMask_anylength(self, sel) == AllBool(sel.vals)

\* the mask test of E[iterable]
IsSeqMask(self, sel) == Len(sel.vals) = Len(self.vals) /\ AllBool(sel.vals)

\* E[iterable] recognised as a boolean mask
GetMaskSeq(self, sel) ==
    With([k \in 1..Len(sel.vals) |-> IsTrue(sel.vals[k])], LAMBDA keep :
        IF self.tag = "dict"
        THEN With(Filter(RangeSeq(Len(sel.vals)), keep, 1), LAMBDA pos :
             With(Collect([k \in 1..Len(pos) |-> WholeGet("dict", self.keys, self.vals, pos[k])]), LAMBDA c :
                 IF c.err # NoErr THEN RetErr(c.err, FALSE)
                 ELSE RetObj(Obj("EachMapping", "dict", pos, c.vals))))
        ELSE RetObj(Obj("EachContainer", "list", <<>>, Filter(self.vals, keep, 1))))

\* E[iterable] otherwise: a sequence of separate indices to look up
GetIndexList(self, sel) ==
    With(Collect([k \in 1..Len(sel.vals) |-> WholeGet(self.tag, self.keys, self.vals, sel.vals[k].v)]), LAMBDA c :
        IF c.err # NoErr THEN RetErr(c.err, FALSE)
        ELSE RetObj(Obj("EachContainer", "list", <<>>, c.vals)))

\* E[i] for one scalar index
GetSingle(self, sel) ==
    With(WholeGet(self.tag, self.keys, self.vals, sel.vals[1].v), LAMBDA c :
        IF c.err # NoErr THEN RetErr(c.err, FALSE) ELSE RetValue(c.v))

EachContainer_getitem(self, sel) ==
    CASE sel.tag = "dict" -> IF AllBool(sel.vals) THEN GetMaskMapping(self, sel) ELSE GetRemap(self, sel)
      [] sel.tag = "list" -> IF IsSeqMask(self, sel) THEN GetMaskSeq(self, sel) ELSE GetIndexList(self, sel)
      [] OTHER -> GetSingle(self, sel)

EachSet_getitem(self, sel) ==
    IF sel.tag \in {"list", "dict"} THEN EachContainer_getitem(self, sel)
    ELSE IF sel.vals[1].v \in Range(self.vals) THEN RetValue(sel.vals[1].v)
    ELSE RetErr("KeyError", FALSE)

\* E[item], dispatched on the class of E
getitem(self, sel) ==
    IF self.cls = "EachSet" THEN EachSet_getitem(self, sel) ELSE EachContainer_getitem(self, sel)

\* self.values(): what iterating and distributing over the container visits.
\* EachContainer.values iterates self.whole, and iterating a dict yields its
\* keys; EachMapping.values iterates self.whole.values()
values(self) == IF self.cls = "EachContainer" /\ self.tag = "dict" THEN self.keys ELSE self.vals

\* ---- the each factory ----

\* each(source) for one non-string iterable source
each(source) ==
    CASE source.tag = "set" -> Obj("EachSet", "set", source.vals, source.vals)
      [] source.tag = "dict" -> Obj("EachMapping", "dict", source.keys, source.vals)
      [] OTHER -> Obj("EachContainer", source.tag, <<>>, source.vals)

\* ---- inputs ----

PlainSeqs(tags) == {Obj("none", t, <<>>, vs) : t \in tags, vs \in SeqsUpTo(Vals, MaxLen)}

PlainDicts == UNION {{Obj("none", "dict", ks, vs) : vs \in [1..Len(ks) -> Vals]} : ks \in DistinctSeqs(Keys, MaxKeys)}

PlainSets == {Obj("none", "set", ms, ms) : ms \in DistinctSeqs(Vals, MaxKeys)}

Collections == PlainSeqs({"list", "tuple"}) \cup PlainDicts \cup PlainSets

Scalars == {Scalar(v) : v \in Vals}

\* operands of operators: scalars, lists, dicts, each-wrapped lists and dicts
Operands == Scalars \cup PlainSeqs({"list"}) \cup PlainDicts
            \cup {each(x) : x \in PlainSeqs({"list"}) \cup PlainDicts}

\* operands whose member at position i is i mod 2: one operand per shape
ShapeOperands == {o \in Scalars \cup PlainSeqs({"list"}) \cup PlainDicts :
                    \A i \in 1..Len(o.vals) : o.vals[i] = (i - 1) % 2}

SelInts == {-1, 0, 1, 7}

SelBools == [t : {"bool"}, v : {0, 1}]

SelElems == SelBools \cup [t : {"int"}, v : SelInts]

\* lists of booleans and lists of integers
ListSelectors == {Sel("list", <<>>, xs) : xs \in SeqsUpTo(SelBools, MaxLen) \cup SeqsUpTo(SelElems \ SelBools, MaxLen)}

DictSelectors == UNION {{Sel("dict", ks, xs) : xs \in [1..Len(ks) -> SelElems]} : ks \in DistinctSeqs(Keys, MaxKeys)}

IntSelectors == {SelInt(i) : i \in SelInts \cup {2}}

\* ---- state ----

VARIABLES
    E,      \* the container: [cls, tag, keys, vals], vals being E.whole
    E0,     \* the container as constructed
    op,     \* the operation performed on it, "init" before any
    arg,    \* the inputs of the operation
    ret     \* what the operation returned or raised

vars == <<E, E0, op, arg, ret>>

Arg(others, sel, mf, accepts) == [others |-> others, sel |-> sel, mf |-> mf, accepts |-> accepts]

NoRet == Ret(NoErr, "none", NoObj, <<>>, FALSE, FALSE, <<>>)

Init ==
    /\ E \in {each(c) : c \in Collections}
    /\ E0 = E
    /\ op = "init"
    /\ arg = Arg(<<>>, NoSel, FALSE, FALSE)
    /\ ret = NoRet

\* an operation that leaves E alone
Returns(name, a, r) ==
    /\ op = "init"
    /\ op' = name
    /\ arg' = a
    /\ ret' = r
    /\ UNCHANGED <<E, E0>>

\* an in-place operation: r is [ret, E]
Mutates(name, a, r) ==
    /\ op = "init"
    /\ op' = name
    /\ arg' = a
    /\ ret' = r.ret
    /\ E' = r.E
    /\ UNCHANGED E0

\* E + o
Add == op = "init" /\ \E o \in Operands : Returns("add", Arg(<<o>>, NoSel, FALSE, FALSE), BinaryOp(E, o, "add", FALSE))

\* o + E
RAdd == op = "init" /\ \E o \in Operands : Returns("radd", Arg(<<o>>, NoSel, FALSE, FALSE), BinaryOp(E, o, "add", TRUE))

\* E - o
Sub == op = "init" /\ \E o \in Operands : Returns("sub", Arg(<<o>>, NoSel, FALSE, FALSE), BinaryOp(E, o, "sub", FALSE))

\* o - E
RSub == op = "init" /\ \E o \in Operands : Returns("rsub", Arg(<<o>>, NoSel, FALSE, FALSE), BinaryOp(E, o, "sub", TRUE))

\* whether the members take new attributes: it matters to an in-place operator
\* only when the whole has no slot assignment
MemberKinds(self) == IF HasSetItem(self.tag) THEN {FALSE} ELSE BOOLEAN

\* E += o
IAdd == op = "init" /\ \E o \in Operands, accepts \in MemberKinds(E) :
            Mutates("iadd", Arg(<<o>>, NoSel, TRUE, accepts), InPlaceOp(E, o, "add", accepts))

\* E -= o
ISub == op = "init" /\ \E o \in Operands, accepts \in MemberKinds(E) :
            Mutates("isub", Arg(<<o>>, NoSel, TRUE, accepts), InPlaceOp(E, o, "sub", accepts))

\* list(BroadcastHandler(E, o, match_first=mf))
Iterate == op = "init" /\ \E o \in Operands, mf \in BOOLEAN :
            Returns("iterate", Arg(<<o>>, NoSel, mf, FALSE),
                    RetTuples(BroadcastHandler_iter(BroadcastHandler(<<E, o>>, mf))))

\* list(BroadcastHandler(E, o1, o2)): the alignment of a call E(o1, o2)
Iterate3 == op = "init" /\ \E o1 \in ShapeOperands, o2 \in ShapeOperands :
            Returns("iterate", Arg(<<o1, o2>>, NoSel, FALSE, FALSE),
                    RetTuples(BroadcastHandler_iter(BroadcastHandler(<<E, o1, o2>>, FALSE))))

\* list(broadcast_together(E, o, match_first=mf)); with mf this is
\* list(with_matched_version_of(E, o))
BroadcastTogether == op = "init" /\ \E o \in Operands, mf \in BOOLEAN :
            Returns("broadcast_together", Arg(<<o>>, NoSel, mf, FALSE),
                    RetTuples(IF mf THEN with_matched_version_of(<<E, o>>) ELSE broadcast_together(<<E, o>>, FALSE)))

\* E.attr = value
SetAttr == op = "init" /\ \E o \in Operands, accepts \in BOOLEAN :
            LET sa == EachContainer_setattr(E, o, accepts)
            IN  Returns("setattr", Arg(<<o>>, NoSel, TRUE, accepts),
                        Ret(sa.err, "none", NoObj, <<>>, FALSE, FALSE, sa.written))

\* E[i] for a scalar index i
GetItemSingle == op = "init" /\ \E sel \in IntSelectors : Returns("getitem", Arg(<<>>, sel, FALSE, FALSE), getitem(E, sel))

\* E[sequence] and E[mapping]
GetItem == op = "init" /\ \E sel \in ListSelectors \cup DictSelectors :
            Returns("getitem", Arg(<<>>, sel, FALSE, FALSE), getitem(E, sel))

Next == Add \/ RAdd \/ Sub \/ RSub \/ IAdd \/ ISub \/ Iterate \/ Iterate3 \/ BroadcastTogether
        \/ SetAttr \/ GetItemSingle

Spec == Init /\ [][Next]_vars

NextIndex == GetItemSingle \/ GetItem

SpecIndex == Init /\ [][NextIndex]_vars

\* ---- E[L][L2]: an index list applied to the result of an index list ----

\* lists of distinct positions among 0 .. MaxLen-1 (the permutations of the
\* positions of every container are among them)
PermSelectors ==
    {Sel("list", <<>>, [j \in 1..Len(p) |-> [t |-> "int", v |-> p[j]]]) : p \in DistinctSeqs(0..(MaxLen - 1), MaxLen)}

\* F = E[L]
GetItemPerm == op = "init" /\ \E sel \in PermSelectors : Returns("getitem", Arg(<<>>, sel, FALSE, FALSE), getitem(E, sel))

\* F[L2] for the container F that E[L] returned; L2 is recorded in arg.others
GetItemAgain ==
    /\ op = "getitem"
    /\ ret.err = NoErr /\ ret.kind = "container"
    /\ \E sel2 \in PermSelectors :
          /\ op' = "getitem2"
          /\ arg' = [arg EXCEPT !.others = <<sel2>>]
          /\ ret' = getitem(ret.obj, sel2)
    /\ UNCHANGED <<E, E0>>

NextRoundTrip == GetItemPerm \/ GetItemAgain

SpecRoundTrip == Init /\ [][NextRoundTrip]_vars

\* ---- slices ----

\* None, as a bound or step of a slice
None == [t |-> "none", v |-> 0]

SliceInt(i) == [t |-> "int", v |-> i]

\* slice(start, stop, step)
Slice(start, stop, step) == Sel("slice", <<>>, <<start, stop, step>>)

IsNone(x) == x.t = "none"

Max(a, b) == IF a > b THEN a ELSE b

\* slice.indices(n): [start, stop, step] as integers, after CPython's
\* PySlice_AdjustIndices (the step is not 0)
SliceIndices(sl, n) ==
    LET step == IF IsNone(sl.vals[3]) THEN 1 ELSE sl.vals[3].v
        lower == IF step < 0 THEN -1 ELSE 0
        upper == IF step < 0 THEN n - 1 ELSE n
        Clamp(x) == IF x.v < 0 THEN Max(x.v + n, lower) ELSE Min(x.v, upper)
    IN  [start |-> IF IsNone(sl.vals[1]) THEN (IF step < 0 THEN upper ELSE lower) ELSE Clamp(sl.vals[1]),
         stop |-> IF IsNone(sl.vals[2]) THEN (IF step < 0 THEN lower ELSE upper) ELSE Clamp(sl.vals[2]),
         step |-> step]

\* range(start, stop, step) as a sequence, for a range within -1 .. n
PyRange(start, stop, step, n) ==
    IF step > 0
    THEN [k \in 1..Cardinality({i \in 0..n : i >= start /\ i < stop /\ (i - start) % step = 0}) |->
            start + (k - 1) * step]
    ELSE [k \in 1..Cardinality({i \in 0..n : i <= start /\ i > stop /\ (start - i) % (-step) = 0}) |->
            start + (k - 1) * step]

\* the positions (0-based) that sequence[slice] selects from n members
SlicePositions(sl, n) ==
    With(SliceIndices(sl, n), LAMBDA ix : PyRange(ix.start, ix.stop, ix.step, n))

\* itertools.islice(whole, start, stop, step) on n members: [err, pos], the
\* positions it yields.  start and stop must be None or >= 0, step None or >= 1
ISlice(start, stop, step, n) ==
    IF \/ ~IsNone(start) /\ start.v < 0
       \/ ~IsNone(stop) /\ stop.v < 0
       \/ ~IsNone(step) /\ step.v < 1
    THEN [err |-> "ValueError", pos |-> <<>>]
    ELSE [err |-> NoErr,
          pos |-> PyRange(IF IsNone(start) THEN 0 ELSE Min(start.v, n),
                          IF IsNone(stop) THEN n ELSE Min(stop.v, n),
                          IF IsNone(step) THEN 1 ELSE step.v, n)]

\* the members at the given positions (0-based)
AtPositions(vals, pos) == [k \in 1..Len(pos) |-> vals[pos[k] + 1]]

\* E[start:stop:step] approximated for a whole without slicing
\* (the except branch of __getitem__)
GetSliceApprox(self, sl) ==
    LET start == sl.vals[1]
        stop == sl.vals[2]
        step == sl.vals[3]
        n == Len(self.vals)
    IN  IF self.cls \in {"EachMapping", "EachSet"}
        THEN With([k \in 1..Len(self.keys) |-> /\ (IsNone(start) \/ start.v <= self.keys[k])
                                               /\ (IsNone(stop) \/ self.keys[k] < stop.v)], LAMBDA keep :
                 RetObj(WrapDict(self.cls, Filter(self.keys, keep, 1), Filter(self.vals, keep, 1))))
        ELSE IF IsNone(start) \/ IsNone(stop)
        THEN RetErr("TypeError", FALSE)    \* None < 0
        ELSE \* if start < 0: start += len;  if stop < 0: start += len
             With(start.v + (IF start.v < 0 THEN n ELSE 0), LAMBDA s1 :
             With(s1 + (IF stop.v < 0 THEN n ELSE 0), LAMBDA s2 :
             With(ISlice(SliceInt(s2), stop, step, n), LAMBDA it :
                 IF it.err # NoErr THEN RetErr(it.err, FALSE)
                 ELSE RetObj(Obj("EachContainer", "list", <<>>, AtPositions(self.vals, it.pos))))))

IsFullSlice(sl) == IsNone(sl.vals[1]) /\ IsNone(sl.vals[2]) /\ IsNone(sl.vals[3])

\* E[slice]: E itself for E[:], self.whole[slice] where the whole can slice,
\* the approximation otherwise
GetSlice(self, sl) ==
    IF IsFullSlice(sl) THEN Ret(NoErr, "container", self, <<>>, TRUE, FALSE, <<>>)
    ELSE IF self.tag \in {"list", "tuple"}
    THEN IF ~IsNone(sl.vals[3]) /\ sl.vals[3].v = 0 THEN GetSliceApprox(self, sl)
         ELSE RetObj(Obj("EachContainer", self.tag, <<>>, AtPositions(self.vals, SlicePositions(sl, Len(self.vals)))))
    ELSE GetSliceApprox(self, sl)

\* ---- E[item] = new_value: EachContainer.__setitem__ without range indices ----

\* iter(source): what a loop over source visits (the keys, for a plain dict)
PyIter(source) == IF source.cls = "none" /\ source.tag = "dict" THEN source.keys ELSE values(source)

\* Fault: a source of one element iterated like any other, not repeated
repeat_if_singular_iterate(source, n) ==
    IF source.tag = "scalar" THEN [k \in 1..n |-> source.vals[1]]
    ELSE SubSeq(PyIter(source), 1, Min(n, Len(PyIter(source))))

\* the first n values (at most) that repeat_if_singular(source) yields
repeat_if_singular(source, n) ==
    IF source.tag = "scalar" THEN [k \in 1..n |-> source.vals[1]]
    ELSE With(PyIter(source), LAMBDA it :
             IF Len(it) = 1 THEN [k \in 1..n |-> it[1]] ELSE SubSeq(it, 1, Min(n, Len(it))))

\* whole[index] = value: [err, keys, vals]
SetSlot(tag, keys, vals, index, value) ==
    CASE tag = "dict" ->
            IF KeyPos(keys, index) # 0
            THEN [err |-> NoErr, keys |-> keys, vals |-> [vals EXCEPT ![KeyPos(keys, index)] = value]]
            ELSE [err |-> NoErr, keys |-> Append(keys, index), vals |-> Append(vals, value)]
      [] tag = "list" ->
            IF index >= 0 /\ index < Len(vals)
            THEN [err |-> NoErr, keys |-> keys, vals |-> [vals EXCEPT ![index + 1] = value]]
            ELSE IF index < 0 /\ index >= -Len(vals)
            THEN [err |-> NoErr, keys |-> keys, vals |-> [vals EXCEPT ![Len(vals) + index + 1] = value]]
            ELSE [err |-> "IndexError", keys |-> keys, vals |-> vals]
      [] OTHER -> [err |-> "TypeError", keys |-> keys, vals |-> vals]

\* for index, value in zip(domain, vs): self.whole[index] = value
\* [err, keys, vals]: the writes made before an error stay
RECURSIVE SetSlots(_, _, _, _, _, _)
SetSlots(tag, keys, vals, domain, vs, k) ==
    IF k > Len(domain) \/ k > Len(vs) THEN [err |-> NoErr, keys |-> keys, vals |-> vals]
    ELSE With(SetSlot(tag, keys, vals, domain[k], vs[k]), LAMBDA w :
             IF w.err # NoErr THEN w ELSE SetSlots(tag, w.keys, w.vals, domain, vs, k + 1))

\* Fault: the mask test of the write path comparing with == (1 == True)
IsWriteMask_equality(self, item) ==
    /\ Len(item.vals) = Len(self.vals)
    /\ \A i \in 1..Len(item.vals) : item.vals[i].v \in {0, 1}

\* the mask test of E[iterable] = v
IsWriteMask(self, item) == Len(item.vals) = Len(self.vals) /\ AllBool(item.vals)

\* the keys / indices to replace, for a mapping or a non-string iterable item
WriteDomain(self, item) ==
    IF item.tag = "dict"
    THEN IF AllBool(item.vals)
         THEN Filter(item.keys, [k \in 1..Len(item.vals) |-> IsTrue(item.vals[k])], 1)
         ELSE [k \in 1..Len(item.vals) |-> item.vals[k].v]
    ELSE IF IsWriteMask(self, item)
         THEN Filter(RangeSeq(Len(item.vals)), [k \in 1..Len(item.vals) |-> IsTrue(item.vals[k])], 1)
         ELSE [k \in 1..Len(item.vals) |-> item.vals[k].v]

\* the keys of a mapping that a slice covers (every key for the full slice)
WriteSliceKeys(self, sl) ==
    Filter(self.keys, [k \in 1..Len(self.keys) |-> /\ (IsNone(sl.vals[1]) \/ sl.vals[1].v <= self.keys[k])
                                                    /\ (IsNone(sl.vals[2]) \/ self.keys[k] < sl.vals[2].v)], 1)

\* list[slice] = iterable: [err, keys, vals]
NativeSetSlice(self, sl, new) ==
    IF self.tag # "list" THEN [err |-> "TypeError", keys |-> self.keys, vals |-> self.vals]
    ELSE With(SliceIndices(sl, Len(self.vals)), LAMBDA ix :
         IF ix.step = 1
         THEN [err |-> NoErr, keys |-> self.keys,
               vals |-> SubSeq(self.vals, 1, ix.start) \o new
                        \o SubSeq(self.vals, Max(ix.stop, ix.start) + 1, Len(self.vals))]
         ELSE With(PyRange(ix.start, ix.stop, ix.step, Len(self.vals)), LAMBDA pos :
              IF Len(new) # Len(pos) THEN [err |-> "ValueError", keys |-> self.keys, vals |-> self.vals]
              ELSE SetSlots("list", self.keys, self.vals, pos, new, 1)))

\* the object stored by whole[i] = new_value
AsMember(value) == IF value.tag = "scalar" THEN value.vals[1] ELSE value.vals

\* the result of a write: nothing is returned; E is the container afterwards
Written(self, w) ==
    [ret |-> Ret(w.err, "none", NoObj, <<>>, FALSE, FALSE, <<>>),
     E |-> [self EXCEPT !.keys = w.keys, !.vals = w.vals]]

\* EachContainer.__setitem__(item, new_value) for an item that is no tuple
EachContainer_setitem(self, item, new_value) ==
    CASE item.tag \in {"dict", "list"} ->
            With(WriteDomain(self, item), LAMBDA domain :
                Written(self, SetSlots(self.tag, self.keys, self.vals, domain,
                                       repeat_if_singular(new_value, Len(domain)), 1)))
      [] item.tag = "slice" /\ IsMapping(self) ->
            IF self.cls = "EachSet"    \* a set / keys view has no .keys()
            THEN Written(self, [err |-> "AttributeError", keys |-> self.keys, vals |-> self.vals])
            ELSE With(WriteSliceKeys(self, item), LAMBDA domain :
                Written(self, SetSlots(self.tag, self.keys, self.vals, domain,
                                       repeat_if_singular(new_value, Len(domain)), 1)))
      [] item.tag = "slice" /\ ~IsMapping(self) /\ new_value.tag = "scalar" ->
            \* range(item.indices(len(self.whole))): range() of a tuple
            Written(self, [err |-> "TypeError", keys |-> self.keys, vals |-> self.vals])
      [] item.tag = "slice" /\ ~IsMapping(self) /\ new_value.tag # "scalar" ->
            Written(self, NativeSetSlice(self, item, PyIter(new_value)))
      [] OTHER ->
            Written(self, SetSlot(self.tag, self.keys, self.vals, item.vals[1].v, AsMember(new_value)))

\* ---- inputs of writes ----

\* a collection whose i-th member is 10 + i
Pattern(n) == [i \in 1..n |-> 10 + i]

PatternCollections ==
    {Obj("none", t, <<>>, Pattern(n)) : t \in {"list", "tuple"}, n \in 0..MaxLen}
    \cup {Obj("none", "dict", ks, Pattern(Len(ks))) : ks \in DistinctSeqs(Keys, MaxKeys)}
    \cup PlainSets

\* new values: the scalars 8 and 9 and the lists [], [8], [8, 9], [8, 9, 8], ...
WriteValues ==
    {Scalar(8), Scalar(9)} \cup {Obj("none", "list", <<>>, [k \in 1..n |-> 8 + ((k - 1) % 2)]) : n \in 0..MaxLen}

\* mappings of booleans (masks) and mappings of indices (remaps)
WriteDictSelectors ==
    UNION {{Sel("dict", ks, xs) : xs \in [1..Len(ks) -> SelBools] \cup [1..Len(ks) -> SelElems \ SelBools]}
           : ks \in DistinctSeqs(Keys, MaxKeys)}

SliceBounds == {None} \cup {SliceInt(i) : i \in {-1, 0, 1, 2}}

SliceSteps == {None} \cup {SliceInt(i) : i \in {1, 2, -1}}

SliceSelectors == {Slice(a, b, c) : a \in SliceBounds, b \in SliceBounds, c \in SliceSteps}

\* sequences of booleans and of the integers 0 and 1, mixed
MixedSelectors == {Sel("list", <<>>, xs) : xs \in SeqsUpTo(SelBools \cup [t : {"int"}, v : {0, 1}], MaxLen)}

InitWrite ==
    /\ E \in {each(c) : c \in PatternCollections}
    /\ E0 = E
    /\ op = "init"
    /\ arg = Arg(<<>>, NoSel, FALSE, FALSE)
    /\ ret = NoRet

\* E[sel] = v
SetItem(sel, v) == Mutates("setitem", Arg(<<v>>, sel, FALSE, FALSE), EachContainer_setitem(E, sel, v))

\* E[sequence] = v
SetItemSeq == op = "init" /\ \E sel \in ListSelectors, v \in WriteValues : SetItem(sel, v)

\* E[mapping] = v
SetItemMapping == op = "init" /\ \E sel \in WriteDictSelectors, v \in WriteValues : SetItem(sel, v)

\* E[start:stop:step] = v
SetItemSlice == op = "init" /\ \E sel \in SliceSelectors, v \in WriteValues : SetItem(sel, v)

\* E[i] = v for a scalar v
SetItemSingle == op = "init" /\ \E sel \in IntSelectors, v \in {Scalar(8), Scalar(9)} : SetItem(sel, v)

NextWrite == SetItemSeq \/ SetItemMapping \/ SetItemSlice \/ SetItemSingle

SpecWrite == InitWrite /\ [][NextWrite]_vars

\* E[sequence] and E[sequence] = v for sequences mixing booleans and 0 / 1
GetItemMixed == op = "init" /\ \E sel \in MixedSelectors : Returns("getitem", Arg(<<>>, sel, FALSE, FALSE), getitem(E, sel))

SetItemMixed == op = "init" /\ \E sel \in MixedSelectors, v \in WriteValues : SetItem(sel, v)

NextMask == GetItemMixed \/ SetItemMixed

SpecMask == InitWrite /\ [][NextMask]_vars

\* ---- E[start:stop:step] ----

\* containers over lists, tuples and value views (no native slicing), and dicts
SliceCollections ==
    {Obj("none", t, <<>>, Pattern(n)) : t \in {"list", "tuple", "dict_values"}, n \in 0..MaxLen}
    \cup {Obj("none", "dict", ks, Pattern(Len(ks))) : ks \in DistinctSeqs(Keys, MaxKeys)}

InitSlice ==
    /\ E \in {each(c) : c \in SliceCollections}
    /\ E0 = E
    /\ op = "init"
    /\ arg = Arg(<<>>, NoSel, FALSE, FALSE)
    /\ ret = NoRet

GetItemSlice == op = "init" /\ \E sel \in SliceSelectors : Returns("getitem", Arg(<<>>, sel, FALSE, FALSE), GetSlice(E, sel))

NextSlice == GetItemSlice

SpecSlice == InitSlice /\ [][NextSlice]_vars

\* ---- E[domain, range]: containers of lists ----

MaxInner == 2

\* member[range_indices] for a list member and one integer index: a cell
RangeGet(member, r) == WholeGet("list", <<>>, member, r)

\* E[d] for any selector d that is no tuple
Domain(self, d) == IF d.tag = "slice" THEN GetSlice(self, d) ELSE getitem(self, d)

\* Fault: the submembers of a keyed domain collected into a positional container
RangeOfDomain_positional(q, r) ==
    IF q.err # NoErr THEN q
    ELSE IF q.kind = "value"
    THEN With(RangeGet(q.obj.vals[1], r), LAMBDA c :
             IF c.err # NoErr THEN RetErr(c.err, FALSE) ELSE RetValue(c.v))
    ELSE With(Collect([k \in 1..Len(q.obj.vals) |-> RangeGet(q.obj.vals[k], r)]), LAMBDA c :
             IF c.err # NoErr THEN RetErr(c.err, FALSE)
             ELSE RetObj(Obj("EachContainer", "list", <<>>, c.vals)))

\* the container of member[r] for the members of a domain built eagerly
RangeOfDomain(q, r) ==
    IF q.err # NoErr THEN q
    ELSE IF q.kind = "value"
    THEN With(RangeGet(q.obj.vals[1], r), LAMBDA c :
             IF c.err # NoErr THEN RetErr(c.err, FALSE) ELSE RetValue(c.v))
    ELSE With(Collect([k \in 1..Len(q.obj.vals) |-> RangeGet(q.obj.vals[k], r)]), LAMBDA c :
             IF c.err # NoErr THEN RetErr(c.err, FALSE)
             ELSE IF q.obj.tag = "dict" THEN RetObj(Obj("EachMapping", "dict", q.obj.keys, c.vals))
             ELSE RetObj(Obj("EachContainer", "list", <<>>, c.vals)))

\* EachContainer.__getitem__((d, r)).  An index list and a mapping mask over a
\* positional container make the domain a generator, so the lookups of the
\* members and of their submembers alternate
EachContainer_getitem_compound(self, d, r) ==
    IF d.tag = "list" /\ ~IsSeqMask(self, d)
    THEN With(Collect([k \in 1..Len(d.vals) |->
                  With(WholeGet(self.tag, self.keys, self.vals, d.vals[k].v), LAMBDA c :
                      IF c.err # NoErr THEN c ELSE RangeGet(c.v, r))]), LAMBDA c :
             IF c.err # NoErr THEN RetErr(c.err, FALSE)
             ELSE RetObj(Obj("EachContainer", "list", <<>>, c.vals)))
    ELSE IF d.tag = "dict" /\ AllBool(d.vals) /\ ~IsMapping(self)
    THEN With([k \in 1..Len(self.vals) |-> SelGet(d, k - 1)], LAMBDA looked :
         With(Collect([k \in 1..Len(self.vals) |->
                  IF looked[k].err # NoErr THEN Cell("KeyError", 0)
                  ELSE IF IsTrue(looked[k].x) THEN RangeGet(self.vals[k], r)
                  ELSE Cell(NoErr, 0)]), LAMBDA c :
             IF c.err # NoErr THEN RetErr(c.err, FALSE)
             ELSE RetObj(Obj("EachContainer", "list", <<>>,
                             Filter(c.vals, [k \in 1..Len(self.vals) |-> IsTrue(looked[k].x)], 1)))))
    ELSE RangeOfDomain(Domain(self, d), r)

\* the i-th member of a container of lists: [10 i + 1, ..., 10 i + MaxInner]
NestedMember(i) == [j \in 1..MaxInner |-> 10 * i + j]

NestedCollections ==
    {Obj("none", t, <<>>, [i \in 1..n |-> NestedMember(i)]) : t \in {"list", "tuple"}, n \in 0..MaxLen}
    \cup {Obj("none", "dict", ks, [i \in 1..Len(ks) |-> NestedMember(i)]) : ks \in DistinctSeqs(Keys, MaxKeys)}

InitNested ==
    /\ E \in {each(c) : c \in NestedCollections}
    /\ E0 = E
    /\ op = "init"
    /\ arg = Arg(<<>>, NoSel, FALSE, FALSE)
    /\ ret = NoRet

\* E[d, r]: the range index is kept in arg.others
GetItemCompound(ds) ==
    op = "init" /\ \E d \in ds, r \in IntSelectors :
        Returns("getitem", Arg(<<r>>, d, FALSE, FALSE), EachContainer_getitem_compound(E, d, r.vals[1].v))

GetCompoundSingle == GetItemCompound(IntSelectors)

GetCompoundSeq == GetItemCompound(ListSelectors)

GetCompoundMapping == GetItemCompound(WriteDictSelectors)

GetCompoundSlice == GetItemCompound(SliceSelectors)

NextNested == GetCompoundSingle \/ GetCompoundSeq \/ GetCompoundMapping \/ GetCompoundSlice

SpecNested == InitNested /\ [][NextNested]_vars

\* ---- E[domain, range] = new_value ----

\* self with every member replaced by its place in self.vals, so that a read
\* of it tells which members of self a domain index selects
Places(self) == [self EXCEPT !.vals = [i \in 1..Len(self.vals) |-> i]]

\* Fault: the values written into the first members instead of the selected ones
RECURSIVE SetInner_first(_, _, _, _, _)
SetInner_first(vals, places, vs, r, k) ==
    IF k > Len(vals) \/ k > Len(vs) THEN [err |-> NoErr, keys |-> <<>>, vals |-> vals]
    ELSE With(SetSlot("list", <<>>, vals[k], r, vs[k]), LAMBDA w :
             IF w.err # NoErr THEN [err |-> w.err, keys |-> <<>>, vals |-> vals]
             ELSE SetInner_first([vals EXCEPT ![k] = w.vals], places, vs, r, k + 1))

\* for member, value in zip(members, vs): member[r] = value, the members given
\* by their places in vals: [err, vals], the writes before an error stay
RECURSIVE SetInner(_, _, _, _, _)
SetInner(vals, places, vs, r, k) ==
    IF k > Len(places) \/ k > Len(vs) THEN [err |-> NoErr, keys |-> <<>>, vals |-> vals]
    ELSE With(SetSlot("list", <<>>, vals[places[k]], r, vs[k]), LAMBDA w :
             IF w.err # NoErr THEN [err |-> w.err, keys |-> <<>>, vals |-> vals]
             ELSE SetInner([vals EXCEPT ![places[k]] = w.vals], places, vs, r, k + 1))

\* EachContainer.__setitem__((d, r), new_value): the loop visits what
\* iterating self[d] yields.  For a single d that is the entries of the
\* one member, and for a remap the keys of the dict built: integers, which
\* accept no item assignment
EachContainer_setitem_compound(self, d, r, new_value) ==
    With(Domain(Places(self), d), LAMBDA q :
        IF q.err # NoErr THEN [ret |-> RetErr(q.err, FALSE), E |-> self]
        ELSE IF q.kind = "value"
        THEN With(self.vals[q.obj.vals[1]], LAMBDA member :
                 Written(self, [err |-> IF Len(repeat_if_singular(new_value, Len(member))) > 0
                                        THEN "TypeError" ELSE NoErr,
                                keys |-> self.keys, vals |-> self.vals]))
        ELSE IF q.obj.cls = "EachContainer" /\ q.obj.tag = "dict"
        THEN Written(self, [err |-> IF Len(repeat_if_singular(new_value, Len(q.obj.keys))) > 0
                                    THEN "TypeError" ELSE NoErr,
                            keys |-> self.keys, vals |-> self.vals])
        ELSE With(SetInner(self.vals, q.obj.vals, repeat_if_singular(new_value, Len(q.obj.vals)), r, 1), LAMBDA w :
                 Written(self, [w EXCEPT !.keys = self.keys])))

\* boolean lists and lists of the indices 0, 1 and 7
NestedListSelectors ==
    {Sel("list", <<>>, xs) : xs \in SeqsUpTo(SelBools, MaxLen) \cup SeqsUpTo([t : {"int"}, v : {0, 1, 7}], MaxLen)}

\* the range indices of compound writes
WriteRanges == {SelInt(i) : i \in {-1, 0, 7}}

\* E[d, r] = v: the range index and the new value are kept in arg.others
SetItemCompound(ds) ==
    op = "init" /\ \E d \in ds, r \in WriteRanges, v \in WriteValues :
        Mutates("setitem", Arg(<<r, v>>, d, FALSE, FALSE), EachContainer_setitem_compound(E, d, r.vals[1].v, v))

SetCompoundSingle == SetItemCompound(IntSelectors)

SetCompoundSeq == SetItemCompound(NestedListSelectors)

SetCompoundSlice == SetItemCompound(SliceSelectors)

NextNestedWrite == SetCompoundSingle \/ SetCompoundSeq \/ SetCompoundSlice

SpecNestedWrite == InitNested /\ [][NextNestedWrite]_vars

\* ---- contains / is_in ----

\* the generator of contains (i in s for s, i in B) resp. of is_in
\* (s in c for s, c in B), for members that are no containers: [err, vals, eager]
MembershipGenerator(B, isin) ==
    With(BroadcastHandler_iter(B), LAMBDA z :
        [err |-> z.err,
         vals |-> [k \in 1..Len(z.tuples) |->
                      IF isin THEN z.tuples[k][1] \in z.tuples[k][2] ELSE z.tuples[k][2] \in z.tuples[k][1]],
         eager |-> z.eager])

\* EachContainer.contains(items) for one non-string iterable items
EachContainer_contains(self, items) ==
    With(BroadcastHandler(<<self, items>>, FALSE), LAMBDA B :
    With(MembershipGenerator(B, FALSE), LAMBDA it :
        IF it.eager THEN RetErr(it.err, TRUE) ELSE BroadcastHandler_call(B, it)))

\* EachContainer.is_in(containers) for one non-string iterable containers
EachContainer_is_in(self, containers) ==
    With(BroadcastHandler(<<self, containers>>, FALSE), LAMBDA B :
    With(MembershipGenerator(B, TRUE), LAMBDA it :
        IF it.eager THEN RetErr(it.err, TRUE) ELSE BroadcastHandler_call(B, it)))

\* the i-th member of a container of sets: {0} or {0, 1}
SetMember(i) == IF i % 2 = 1 THEN {0} ELSE {0, 1}

SetCollections ==
    {Obj("none", "list", <<>>, [i \in 1..n |-> SetMember(i)]) : n \in 0..MaxLen}
    \cup {Obj("none", "dict", ks, [i \in 1..Len(ks) |-> SetMember(i)]) : ks \in DistinctSeqs(Keys, MaxKeys)}

\* containers of items to look for
ItemContainers == {each(x) : x \in PlainSeqs({"list"}) \cup PlainDicts \cup PlainSets}

InitContains ==
    /\ E \in {each(c) : c \in SetCollections}
    /\ E0 = E
    /\ op = "init"
    /\ arg = Arg(<<>>, NoSel, FALSE, FALSE)
    /\ ret = NoRet

\* c = A.contains(B)
Contains == op = "init" /\ \E B \in ItemContainers :
                Returns("contains", Arg(<<B>>, NoSel, FALSE, FALSE), EachContainer_contains(E, B))

\* d = B.is_in(A) after c = A.contains(B): c is kept as arg.others[2]
IsInAfter ==
    /\ op = "contains"
    /\ op' = "is_in"
    /\ arg' = [arg EXCEPT !.others = <<arg.others[1], ret>>]
    /\ ret' = EachContainer_is_in(arg.others[1], E)
    /\ UNCHANGED <<E, E0>>

NextContains == Contains \/ IsInAfter

SpecContains == InitContains /\ [][NextContains]_vars

\* ---- nesting ----

\* nested=next, the default of each(): encoded as the level 0
next == 0

\* a value: an int, a string, a list of values, or an EachContainer over a list
\* with its _each_nested; a failed call is a value of kind TypeError
Tree(k, nested, items) == [k |-> k, nested |-> nested, items |-> items]

PyInt == Tree("int", 0, <<>>)

PyStr == Tree("str", 0, <<>>)

PyList(items) == Tree("list", 0, items)

EachOver(whole, nested) == Tree("each", nested, whole)

TypeError == Tree("TypeError", 0, <<>>)

IsIterable(x) == x.k \in {"list", "each"}

\* each(*members, nested, enlist) for levels next, 1, 2, ...
each_members(members, nested, enlist) ==
    IF Len(members) = 1 /\ members[1].k # "str" /\ IsIterable(members[1])
    THEN With(members[1], LAMBDA source :
             IF source.k = "each"
             THEN IF nested = next
                  THEN EachOver(source.items, next)
                  ELSE IF source.nested = next
                       THEN TypeError
                       ELSE EachOver(source.items, Max(nested, source.nested))
             ELSE EachOver(source.items, IF nested = next THEN 1 ELSE nested))
    ELSE IF Len(members) = 1 /\ members[1].k # "str" /\ ~enlist
         THEN members[1]
         ELSE EachOver(members, IF nested = next THEN 1 ELSE nested)

\* EachContainer.values() of a container over a list, as a list
EachContainer_values(self) ==
    IF self.nested = next \/ self.nested > 1
    THEN [i \in 1..Len(self.items) |->
             each_members(<<self.items[i]>>, IF self.nested = next THEN next ELSE self.nested - 1, FALSE)]
    ELSE self.items

\* x inside d lists of two members
RECURSIVE Deep(_, _)
Deep(x, d) == IF d = 0 THEN x ELSE PyList(<<Deep(x, d - 1), Deep(x, d - 1)>>)

\* rows of scalars, strings included, and of short lists
Rows == {PyList(r) : r \in {<<PyInt>>, <<PyInt, PyStr>>, <<PyStr, PyInt>>,
                              <<PyInt, PyStr, PyList(<<PyInt, PyStr>>)>>, <<PyList(<<PyStr>>), PyStr>>}}

NestingInputs == {PyInt, PyStr} \cup {Deep(r, d) : r \in Rows, d \in 0..(MaxLen - 1)}

Levels == {next} \cup (1..MaxLen)

NestArg(nested, enlist, prev, wraps) == [nested |-> nested, enlist |-> enlist, prev |-> prev, wraps |-> wraps]

InitNesting ==
    /\ E \in NestingInputs
    /\ E0 = E
    /\ op = "init"
    /\ arg = NestArg(next, TRUE, E, 0)
    /\ ret = <<>>

\* E = each(E, nested=nested, enlist=enlist)
Wrap ==
    /\ op \in {"init", "each"} /\ E.k # "TypeError" /\ arg.wraps < MaxInner
    /\ \E nested \in Levels, enlist \in BOOLEAN :
          /\ E' = each_members(<<E>>, nested, enlist)
          /\ arg' = NestArg(nested, enlist, E, arg.wraps + 1)
    /\ op' = "each"
    /\ UNCHANGED <<E0, ret>>

\* list(E.values())
Values ==
    /\ op \in {"init", "each"} /\ E.k = "each"
    /\ op' = "values"
    /\ ret' = EachContainer_values(E)
    /\ UNCHANGED <<E, E0, arg>>

NextNesting == Wrap \/ Values

SpecNesting == InitNesting /\ [][NextNesting]_vars

\* ---- calls ----

\* t[a:b] of a tuple t, for 0 <= a
PySlice(t, a, b) == SubSeq(t, a + 1, Min(b, Len(t)))

\* {key: value for key, value in zip(names, vs)}, as the sequence of its items
ZipDict(names, vs) == [j \in 1..Min(Len(names), Len(vs)) |-> <<names[j], vs[j]>>]

\* f(*a, **k) of a member f: what f was called with
PyCall(f, a, k) == [f |-> f, a |-> a, k |-> k]

\* Fault: start_k one too far
call_start_k_shifted(args) == 1 + Len(args) + 1

\* start_k of EachContainer.__call__
call_start_k(args) == 1 + Len(args)

\* EachContainer.__call__(*args, **kwargs), kwargs given by its keys and values
EachContainer_call(self, args, names, kwvals) ==
    With(BroadcastHandler(<<self>> \o args \o kwvals, FALSE), LAMBDA B :
    With(BroadcastHandler_iter(B), LAMBDA z :
        IF z.eager THEN RetErr(z.err, TRUE)
        ELSE BroadcastHandler_call(B,
                 [err |-> z.err,
                  vals |-> [i \in 1..Len(z.tuples) |->
                               PyCall(z.tuples[i][1],
                                      PySlice(z.tuples[i], 1, call_start_k(args)),
                                      ZipDict(names, PySlice(z.tuples[i], call_start_k(args), Len(z.tuples[i]))))]])))

\* start_k of broadcast_args
start_k(args) == 1 + Len(args) + 1

\* broadcast_args(fn, args, kwargs, match_first): [err, tuples, eager] with
\* the triples (f, a, k) as records
broadcast_args(fn, args, names, kwvals, match_first) ==
    With(broadcast_together(<<fn>> \o args \o kwvals, match_first), LAMBDA z :
        [err |-> z.err,
         tuples |-> [i \in 1..Len(z.tuples) |->
                        [f |-> z.tuples[i][1],
                         a |-> PySlice(z.tuples[i], 1, start_k(args)),
                         k |-> ZipDict(names, PySlice(z.tuples[i], start_k(args), Len(z.tuples[i])))]],
         eager |-> z.eager])

\* operand o with every value raised by d, to tell the arguments apart
Shift(o, d) == [o EXCEPT !.vals = [i \in 1..Len(o.vals) |-> o.vals[i] + d]]

\* the j-th argument of a call: values 20 j, 20 j + 1
ArgOperands(j) == {Shift(o, 20 * j) : o \in ShapeOperands}

\* a keyword argument as the j-th argument: scalars, lists, dicts of at most one key
KwOperands(j) == {Shift(o, 20 * j) : o \in {s \in ShapeOperands : Len(s.keys) <= 1}}

\* positional arguments: none or one
PositionalArgs == {<<>>} \cup {<<o>> : o \in ArgOperands(1)}

\* keyword values for the keywords x and y after p positional arguments
KeywordArgs(p) ==
    {<<>>} \cup {<<o>> : o \in KwOperands(p + 1)} \cup {<<o1, o2>> : o1 \in KwOperands(p + 1), o2 \in KwOperands(p + 2)}

KeywordNames(q) == SubSeq(<<"x", "y">>, 1, q)

CallArg(args, names, kwvals, mf) ==
    [others |-> args, names |-> names, kwvals |-> kwvals, sel |-> NoSel, mf |-> mf, accepts |-> FALSE]

\* E(*args, **kwargs)
Call == op = "init" /\ \E args \in PositionalArgs : \E kwvals \in KeywordArgs(Len(args)) :
            Returns("call", CallArg(args, KeywordNames(Len(kwvals)), kwvals, FALSE),
                    EachContainer_call(E, args, KeywordNames(Len(kwvals)), kwvals))

NextCall == Call

SpecCall == InitWrite /\ [][NextCall]_vars

\* broadcast_args(E, args, kwargs, match_first)
BroadcastArgs == op = "init" /\ \E args \in PositionalArgs, mf \in BOOLEAN : \E kwvals \in KeywordArgs(Len(args)) :
            Returns("broadcast_args", CallArg(args, KeywordNames(Len(kwvals)), kwvals, mf),
                    RetTuples(broadcast_args(E, args, KeywordNames(Len(kwvals)), kwvals, mf)))

NextArgs == BroadcastArgs

SpecArgs == InitWrite /\ [][NextArgs]_vars

\* ---- alignment of several sources ----

\* B = BroadcastHandler(*sources, match_first), list(B) and
\* list(broadcast_together(*sources, match_first)) side by side
Alignment(srcs, match_first) ==
    With(BroadcastHandler(srcs, match_first), LAMBDA B :
        [model |-> B.model, n |-> B.n, indices |-> B.indices,
         it |-> BroadcastHandler_iter(B),
         together |-> broadcast_together(srcs, match_first)])

Aligns(srcs, mf) == Returns("align", Arg(srcs, NoSel, mf, FALSE), Alignment(srcs, mf))

\* E first
AlignFirst == op = "init" /\ \E o \in Operands, mf \in BOOLEAN : Aligns(<<E, o>>, mf)

\* E second
AlignSecond == op = "init" /\ \E o \in Operands, mf \in BOOLEAN : Aligns(<<o, E>>, mf)

\* E between two others
AlignThree == op = "init" /\ \E o1 \in ShapeOperands, o2 \in ShapeOperands, mf \in BOOLEAN : Aligns(<<o1, E, o2>>, mf)

NextAlign == AlignFirst \/ AlignSecond \/ AlignThree

SpecAlign == Init /\ [][NextAlign]_vars

\* ---- in-place operators with a failing member operation ----

\* operand o with every value doubled: divisors 0 and 2
Doubled(o) == [o EXCEPT !.vals = [i \in 1..Len(o.vals) |-> 2 * o.vals[i]]]

Divisors == {Doubled(o) : o \in Operands}

\* E //= o
IFloorDiv == op = "init" /\ \E o \in Divisors, accepts \in MemberKinds(E) :
            Mutates("ifloordiv", Arg(<<o>>, NoSel, TRUE, accepts), InPlaceOp(E, o, "floordiv", accepts))

NextInPlace == IFloorDiv \/ IAdd \/ ISub

SpecInPlace == InitWrite /\ [][NextInPlace]_vars

\* ---- properties ----

BinOps == {"add", "radd", "sub", "rsub"}

InPlaceOps == {"iadd", "isub"}

\* the operand of an operation with one operand
Operand == arg.others[1]

\* a op b for the operator the operation name stands for
Apply(name, a, b) ==
    CASE name \in {"add", "iadd"} -> a + b
      [] name = "radd" -> b + a
      [] name \in {"sub", "isub"} -> a - b
      [] name = "rsub" -> b - a

NonKeyed(x) == ~IsMapping(x)

\* the operation raised e and produced nothing
Failed(e) == ret.err = e /\ ret.obj = NoObj /\ ret.tuples = <<>>

\* the number of members / tuples the operation produced
ResultSize == IF ret.kind = "tuples" THEN Len(ret.tuples) ELSE Len(ret.obj.vals)

\* the value of operand o that is aligned with the i-th member of E0:
\* by key for a keyed o, the one member of a one-element o, by position otherwise
Aligned(o, i) ==
    IF IsMapping(o)
    THEN IF IsMapping(E0) THEN o.vals[KeyPos(o.keys, E0.keys[i])] ELSE o.vals[KeyPos(o.keys, i - 1)]
    ELSE IF PyLen(o) = 1 THEN o.vals[1] ELSE o.vals[i]

\* o has exactly the indices of E0
IndexMatched(o) ==
    \/ NonKeyed(E0) /\ NonKeyed(o) /\ PyLen(o) = PyLen(E0)
    \/ IsMapping(E0) /\ IsMapping(o) /\ Range(o.keys) = Range(E0.keys)
    \/ NonKeyed(E0) /\ IsMapping(o) /\ Range(o.keys) = 0..(PyLen(E0) - 1)

\* o is a scalar or a non-keyed one-element collection
Broadcastable(o) == NonKeyed(o) /\ PyLen(o) = 1

\* the operation returned a new keyed container over the keys of E0, in their
\* order, holding E0[k] op o[k] at every key k
KeyedResult ==
    /\ ret.err = NoErr /\ ret.kind = "container" /\ ~ret.isSelf
    /\ ret.obj.cls = "EachMapping" /\ ret.obj.tag = "dict"
    /\ ret.obj.keys = E0.keys
    /\ Len(ret.obj.vals) = Len(E0.vals)
    /\ \A i \in 1..Len(E0.vals) : ret.obj.vals[i] = Apply(op, E0.vals[i], Aligned(Operand, i))
    /\ E = E0

\* the members of vals whose mask entry is true, in order
Masked(vals, mask) ==
    LET pairs == [i \in 1..Len(vals) |-> <<vals[i], mask[i]>>]
        kept == SelectSeq(pairs, LAMBDA p : p[2])
    IN  [i \in 1..Len(kept) |-> kept[i][1]]

\* two non-keyed sources, neither of one element, of different lengths, aligned
\* without match_first
C1Case ==
    /\ op \in BinOps \cup {"iterate", "broadcast_together"}
    /\ Len(arg.others) = 1 /\ ~arg.mf
    /\ NonKeyed(E0) /\ NonKeyed(Operand)
    /\ PyLen(E0) # 1 /\ PyLen(Operand) # 1 /\ PyLen(E0) # PyLen(Operand)

C2_PositionalBroadcast ==
    (/\ op \in BinOps
     /\ E0.cls = "EachContainer"
     /\ NonKeyed(Operand)
     /\ (PyLen(Operand) = 1 \/ PyLen(Operand) = PyLen(E0)))
    => /\ ret.err = NoErr /\ ret.kind = "container" /\ ~ret.isSelf
       /\ ret.obj.cls = "EachContainer" /\ ret.obj.keys = <<>>
       /\ Len(ret.obj.vals) = PyLen(E0)
       /\ \A i \in 1..PyLen(E0) : ret.obj.vals[i] = Apply(op, E0.vals[i], Aligned(Operand, i))
       /\ E = E0

C2_Witness ==
    /\ op = "rsub"
    /\ E0.cls = "EachContainer" /\ E0.vals = <<0, 1, 1>>
    /\ NonKeyed(Operand) /\ Operand.vals = <<1, 0, 1>>
    /\ ret.obj.vals = <<1, -1, 0>>

\* C3: for a keyed container A and a keyed operand B over the same key set,
\* A op B is a keyed container over exactly A's keys holding A[k] op B[k] at
\* every key k; a non-keyed one-element operand is broadcast to every key; a
\* key of A that a keyed operand B lacks makes the operation raise KeyError.
C3_KeyedAlignment ==
    (op \in BinOps /\ E0.cls = "EachMapping")
    => /\ (IsMapping(Operand) /\ Range(Operand.keys) = Range(E0.keys)) => KeyedResult
       /\ Broadcastable(Operand) => KeyedResult
       /\ (IsMapping(Operand) /\ \E k \in Range(E0.keys) : k \notin Range(Operand.keys))
            => Failed("KeyError")

C3_Witness ==
    /\ op = "sub"
    /\ E0.cls = "EachMapping" /\ E0.keys = <<7, 0>> /\ E0.vals = <<1, 0>>
    /\ IsMapping(Operand) /\ Operand.keys = <<0, 7>> /\ Operand.vals = <<1, 0>>
    /\ ret.obj.keys = <<7, 0>> /\ ret.obj.vals = <<1, -1>>

\* o can be aligned with E0: it is broadcast, or it has (at least) the
\* positions, resp. the keys, of E0
Covers(o) ==
    \/ Broadcastable(o)
    \/ NonKeyed(E0) /\ NonKeyed(o) /\ PyLen(o) >= PyLen(E0)
    \/ IsMapping(E0) /\ IsMapping(o) /\ Range(E0.keys) \subseteq Range(o.keys)

\* o has the positions / keys of E0 and more
Larger(o) ==
    \/ NonKeyed(E0) /\ NonKeyed(o) /\ PyLen(o) > PyLen(E0) /\ PyLen(o) # 1
    \/ IsMapping(E0) /\ IsMapping(o) /\ Range(E0.keys) \subseteq Range(o.keys)
                                     /\ Range(E0.keys) # Range(o.keys)

\* E0 is the first operand that is not broadcast, and some other operand is
\* larger than it
C4Case ==
    /\ op \in BinOps \cup {"iterate"}
    /\ ~arg.mf
    /\ (PyLen(E0) # 1 \/ IsMapping(E0))
    /\ \A j \in 1..Len(arg.others) : Covers(arg.others[j])
    /\ \E j \in 1..Len(arg.others) : Larger(arg.others[j])

\* C4: in a binary operation or an alignment of several arguments, an operand
\* larger than the first non-broadcast operand (a sequence with extra trailing
\* positions, a mapping with extra keys) is accepted: the operation succeeds,
\* the result has exactly the indices / keys of the first non-broadcast
\* operand, and the extra entries are ignored.
C4_LargerOperandAccepted ==
    C4Case
    => /\ ret.err = NoErr
       /\ ResultSize = PyLen(E0)
       /\ IF op = "iterate"
          THEN \A k \in 1..PyLen(E0) :
                  ret.tuples[k] = <<E0.vals[k]>> \o [j \in 1..Len(arg.others) |-> Aligned(arg.others[j], k)]
          ELSE /\ ret.obj.keys = (IF IsMapping(E0) THEN E0.keys ELSE <<>>)
               /\ ret.obj.cls = (IF IsMapping(E0) THEN "EachMapping" ELSE "EachContainer")
               /\ \A i \in 1..PyLen(E0) : ret.obj.vals[i] = Apply(op, E0.vals[i], Aligned(Operand, i))

C4_Witness ==
    /\ C4Case /\ op = "iterate"
    /\ Len(arg.others) = 2
    /\ NonKeyed(E0) /\ PyLen(E0) = 2
    /\ PyLen(arg.others[1]) = 3 /\ arg.others[2].tag = "scalar"
    /\ Len(ret.tuples) = 2

\* C5 as stated: with match_first = true (attribute write, with_matched_version_of,
\* in-place operators) a non-keyed source whose length is neither 1 nor the
\* length of the first source makes the alignment raise ValueError instead of
\* yielding tuples; in particular a one-element first source demands
\* one-element other sources.
C5_MatchFirstRejectsOtherLengths ==
    (/\ op \in InPlaceOps \cup {"iterate", "broadcast_together", "setattr"}
     /\ arg.mf /\ Len(arg.others) = 1
     /\ NonKeyed(E0) /\ NonKeyed(Operand)
     /\ PyLen(Operand) \notin {1, PyLen(E0)})
    => ret.err = "ValueError"

\* the operand of an in-place operator is a scalar, a one-element collection or
\* has the indices of E0
C6Operand == Operand.tag = "scalar" \/ Broadcastable(Operand) \/ IndexMatched(Operand)

\* C6: for a container E over a list or a dict and an operand o that is
\* scalar, one-element or index-matched, E op= o returns E itself, every slot
\* i then holds (old E[i]) op o_i, and the indices / keys of E are unchanged.
C6_InPlaceSettable ==
    (op \in InPlaceOps /\ HasSetItem(E0.tag) /\ C6Operand)
    => /\ ret.err = NoErr /\ ret.isSelf /\ ret.obj = E
       /\ E.cls = E0.cls /\ E.tag = E0.tag /\ E.keys = E0.keys
       /\ Len(E.vals) = Len(E0.vals)
       /\ \A i \in 1..Len(E0.vals) : E.vals[i] = Apply(op, E0.vals[i], Aligned(Operand, i))

C6_Witness ==
    /\ op = "isub"
    /\ E0.cls = "EachMapping" /\ E0.keys = <<7, 1>> /\ E0.vals = <<0, 1>>
    /\ IsMapping(Operand) /\ Operand.keys = <<1, 7>> /\ Operand.vals = <<0, 1>>
    /\ ret.isSelf /\ E.keys = <<7, 1>> /\ E.vals = <<-1, 1>>

\* C7 as stated: for a container E over a collection without slot assignment
\* (a tuple, a set), E op= o completes without error, returns E itself, E's
\* underlying collection afterwards holds (old E[i]) op o_i at every aligned
\* index, and no attribute of a member of E is assigned.
C7_InPlaceRebuilds ==
    (op \in InPlaceOps /\ ~HasSetItem(E0.tag) /\ C6Operand)
    => /\ ret.err = NoErr /\ ret.isSelf
       /\ ret.written = <<>>
       /\ Len(E.vals) = Len(E0.vals)
       /\ \A i \in 1..Len(E0.vals) : E.vals[i] = Apply(op, E0.vals[i], Aligned(Operand, i))

\* C8: for a set container each(S) and a scalar or key-matched keyed operand,
\* an operator returns a keyed container over exactly S that maps every member
\* m to m op o_m; each(S)[m] is m when m is in S and raises KeyError otherwise.
C8_SetVariant ==
    E0.cls = "EachSet"
    => /\ (/\ op \in BinOps
           /\ \/ Operand.tag = "scalar"
              \/ IsMapping(Operand) /\ Range(Operand.keys) = Range(E0.vals))
          => (KeyedResult /\ ret.obj.keys = E0.vals)
       /\ (op = "getitem" /\ arg.sel.tag = "int")
          => IF arg.sel.vals[1].v \in Range(E0.vals)
             THEN ret.err = NoErr /\ ret.kind = "value" /\ ret.obj.vals = <<arg.sel.vals[1].v>>
             ELSE Failed("KeyError")

C8_Witness ==
    /\ op = "rsub"
    /\ E0.cls = "EachSet" /\ E0.vals = <<1, 0>>
    /\ IsMapping(Operand) /\ Operand.keys = <<0, 1>> /\ Operand.vals = <<0, 0>>
    /\ ret.obj.cls = "EachMapping" /\ ret.obj.keys = <<1, 0>> /\ ret.obj.vals = <<-1, 0>>

\* the mask entry for the i-th member of E0 is True
MaskAt(i) ==
    IF arg.sel.tag = "dict" THEN IsTrue(arg.sel.vals[KeyPos(arg.sel.keys, E0.keys[i])])
    ELSE IsTrue(arg.sel.vals[i])

MaskOfE0 == [i \in 1..Len(E0.vals) |-> MaskAt(i)]

\* C9: for a positional E and a boolean sequence of exactly E's length, E[mask]
\* is a positional container of the members whose entry is true, in E's order,
\* renumbered from 0; for a keyed E and a keyed boolean mask over E's keys,
\* E[mask] is a keyed container of the same kind holding the selected members,
\* in E's order, under their original keys.
C9_MaskSelection ==
    (op = "getitem" /\ AllBool(arg.sel.vals))
    => /\ (arg.sel.tag = "list" /\ E0.cls = "EachContainer" /\ Len(arg.sel.vals) = Len(E0.vals))
          => /\ ret.err = NoErr /\ ret.kind = "container"
             /\ ret.obj.cls = "EachContainer" /\ ret.obj.keys = <<>>
             /\ ret.obj.vals = Masked(E0.vals, MaskOfE0)
             /\ E = E0
       /\ (arg.sel.tag = "dict" /\ IsMapping(E0) /\ Range(E0.keys) \subseteq Range(arg.sel.keys))
          => /\ ret.err = NoErr /\ ret.kind = "container"
             /\ ret.obj.cls = E0.cls
             /\ ret.obj.keys = Masked(E0.keys, MaskOfE0)
             /\ ret.obj.vals = Masked(E0.vals, MaskOfE0)
             /\ E = E0

C9_Witness ==
    /\ op = "getitem" /\ arg.sel.tag = "dict" /\ AllBool(arg.sel.vals)
    /\ E0.cls = "EachMapping" /\ E0.keys = <<7, 0>> /\ E0.vals = <<1, 0>>
    /\ arg.sel.keys = <<7, 0>> /\ ~IsTrue(arg.sel.vals[1]) /\ IsTrue(arg.sel.vals[2])
    /\ ret.obj.cls = "EachMapping" /\ ret.obj.keys = <<0>> /\ ret.obj.vals = <<0>>

\* x is a position, resp. a key, of E0
ValidIndex(x) == IF E0.tag = "dict" THEN x \in Range(E0.keys) ELSE x >= 0 /\ x < Len(E0.vals)

\* x is out of the range of E0, resp. no key of it
BadIndex(x) == IF E0.tag = "dict" THEN x \notin Range(E0.keys) ELSE x >= Len(E0.vals) \/ x < -Len(E0.vals)

\* E0[x] for a valid x
MemberAt(x) == IF E0.tag = "dict" THEN E0.vals[KeyPos(E0.keys, x)] ELSE E0.vals[x + 1]

IsPermutation(L, n) ==
    /\ Len(L) = n
    /\ \A j \in 1..n : L[j].t = "int"
    /\ {L[j].v : j \in 1..n} = 0..(n - 1)

\* argsort(L) for a permutation L: position j of the result is the position
\* at which L holds j
Argsort(L) == [j \in 1..Len(L) |-> [t |-> "int", v |-> (CHOOSE i \in 1..Len(L) : L[i].v = j - 1) - 1]]

\* C11: for a positional container E of length n and a permutation L of the
\* positions 0..n-1, E[L][argsort(L)] has the members of E in the order of E.
C11_RoundTrip ==
    (/\ op = "getitem2"
     /\ E0.cls = "EachContainer" /\ E0.tag \in {"list", "tuple"}
     /\ IsPermutation(arg.sel.vals, Len(E0.vals))
     /\ arg.others[1].vals = Argsort(arg.sel.vals))
    => /\ ret.err = NoErr /\ ret.kind = "container"
       /\ ret.obj.cls = "EachContainer" /\ ret.obj.keys = <<>>
       /\ ret.obj.vals = E0.vals
       /\ E = E0

C11_Witness ==
    /\ op = "getitem2"
    /\ E0.cls = "EachContainer" /\ E0.vals = <<0, 1, 1>>
    /\ arg.sel.vals = <<[t |-> "int", v |-> 1], [t |-> "int", v |-> 2], [t |-> "int", v |-> 0]>>
    /\ arg.others[1].vals = <<[t |-> "int", v |-> 2], [t |-> "int", v |-> 0], [t |-> "int", v |-> 1]>>
    /\ ret.obj.vals = <<0, 1, 1>>

\* C12 as stated: for a key-remap selector R (a mapping whose values are
\* indices / keys of E, not all booleans) E[R] is a keyed container (it is a
\* mapping for the alignment and it distributes over its values) whose keys
\* are R's keys and which maps every new key k to E[R[k]].
C12_RemapIsKeyed ==
    (/\ op = "getitem" /\ arg.sel.tag = "dict"
     /\ ~AllBool(arg.sel.vals)
     /\ HasGetItem(E0.tag)
     /\ \A k \in 1..Len(arg.sel.vals) : ValidIndex(arg.sel.vals[k].v))
    => /\ ret.err = NoErr /\ ret.kind = "container"
       /\ IsMapping(ret.obj)
       /\ ret.obj.keys = arg.sel.keys
       /\ values(ret.obj) = [k \in 1..Len(arg.sel.vals) |-> MemberAt(arg.sel.vals[k].v)]

\* ---- C13: mask or index list ----

\* the claim's test: as long as the container and every element a boolean
C13IsMask == Len(arg.sel.vals) = Len(E0.vals) /\ AllBool(arg.sel.vals)

\* the positions / keys a sequence selector stands for: the positions of its
\* true entries if it is a mask, its elements otherwise
C13Targets ==
    IF C13IsMask
    THEN SelectSeq([i \in 1..Len(arg.sel.vals) |-> i - 1], LAMBDA p : IsTrue(arg.sel.vals[p + 1]))
    ELSE [j \in 1..Len(arg.sel.vals) |-> arg.sel.vals[j].v]

\* the first target that is no position of the list E0 (one past the end if none)
FirstBad(T) ==
    IF \E j \in 1..Len(T) : ~ValidIndex(T[j])
    THEN CHOOSE j \in 1..Len(T) : ~ValidIndex(T[j]) /\ \A i \in 1..(j - 1) : ValidIndex(T[i])
    ELSE Len(T) + 1

\* C13: on the read path and on the write path, a non-keyed selector sequence
\* is a mask exactly if its length equals the container's cardinality and
\* every element is True or False (0 and 1 do not count); any other sequence
\* is an index list.  Read: the members at the targets are looked up (keyed by
\* position for a mask over a dict, positional otherwise).  Write of a scalar:
\* exactly the targets are overwritten, up to the first invalid one.
C13_MaskOrIndexList ==
    /\ (op = "getitem" /\ arg.sel.tag = "list" /\ HasGetItem(E0.tag))
       => /\ E = E0
          /\ IF \A j \in 1..Len(C13Targets) : ValidIndex(C13Targets[j])
             THEN /\ ret.err = NoErr /\ ret.kind = "container"
                  /\ ret.obj.vals = [j \in 1..Len(C13Targets) |-> MemberAt(C13Targets[j])]
                  /\ IF C13IsMask /\ E0.tag = "dict"
                     THEN ret.obj.cls = "EachMapping" /\ ret.obj.keys = C13Targets
                     ELSE ret.obj.cls = "EachContainer" /\ ret.obj.keys = <<>>
             ELSE Failed(IF E0.tag = "dict" THEN "KeyError" ELSE "IndexError")
    /\ (op = "setitem" /\ arg.sel.tag = "list" /\ E0.tag = "list" /\ arg.others[1].tag = "scalar")
       => /\ ret.err = (IF FirstBad(C13Targets) <= Len(C13Targets) THEN "IndexError" ELSE NoErr)
          /\ E.vals = [i \in 1..Len(E0.vals) |->
                          IF \E j \in 1..(FirstBad(C13Targets) - 1) : C13Targets[j] = i - 1
                          THEN arg.others[1].vals[1] ELSE E0.vals[i]]
    /\ (op = "setitem" /\ arg.sel.tag = "list" /\ E0.tag = "dict" /\ arg.others[1].tag = "scalar")
       => /\ ret.err = NoErr
          /\ Range(E.keys) = Range(E0.keys) \cup Range(C13Targets)
          /\ \A k \in 1..Len(E.keys) :
                E.vals[k] = IF E.keys[k] \in Range(C13Targets) THEN arg.others[1].vals[1]
                            ELSE E0.vals[KeyPos(E0.keys, E.keys[k])]

\* [11, 12] written through [True, 0]: as long as the list but not all
\* booleans, so positions 1 and 0 are written
C13_Witness ==
    /\ op = "setitem" /\ E0.tag = "list" /\ E0.vals = <<11, 12>>
    /\ arg.sel.vals = <<[t |-> "bool", v |-> 1], [t |-> "int", v |-> 0]>>
    /\ arg.others[1] = Scalar(9)
    /\ ret.err = NoErr /\ E.vals = <<9, 9>>

\* ---- C14: approximated slices ----

\* C14: for a positional E over a collection without native slicing,
\* E[start:stop:step] with a positive or omitted step and any start / stop
\* (negative or omitted included) selects exactly the members native slicing of
\* the sequence of E's members would select; a negative step fails.
C14_ApproximatedSlice ==
    (op = "getitem" /\ arg.sel.tag = "slice" /\ E0.cls = "EachContainer" /\ E0.tag = "dict_values")
    => IF IsNone(arg.sel.vals[3]) \/ arg.sel.vals[3].v > 0
       THEN /\ ret.err = NoErr /\ ret.kind = "container"
            /\ ret.obj.vals = AtPositions(E0.vals, SlicePositions(arg.sel, Len(E0.vals)))
       ELSE ret.err # NoErr

\* ---- C15: compound reads ----

\* s[i] as Python indexes a sequence, and whether i is in range
PyAt(s, i) == IF i < 0 THEN s[Len(s) + i + 1] ELSE s[i + 1]

InRange(s, i) == i >= -Len(s) /\ i < Len(s)

\* x is a position (negative ones included) / a key of E0, and the member there
IsIndexOfE0(x) == IF E0.tag = "dict" THEN x \in Range(E0.keys) ELSE InRange(E0.vals, x)

E0At(x) == IF E0.tag = "dict" THEN E0.vals[KeyPos(E0.keys, x)] ELSE PyAt(E0.vals, x)

\* the range index of a compound read or write
RangeIndex == arg.others[1].vals[1].v

\* the keys of E0 within the bounds of the slice, in E0's order
KeysInSlice ==
    SelectSeq(E0.keys, LAMBDA k : /\ (IsNone(arg.sel.vals[1]) \/ arg.sel.vals[1].v <= k)
                                  /\ (IsNone(arg.sel.vals[2]) \/ k < arg.sel.vals[2].v))

\* the domain selector is a valid single index, a list of valid indices, a
\* mask covering E0, a remap to valid indices, or a slice
DomainCase ==
       CASE arg.sel.tag = "int" -> IsIndexOfE0(arg.sel.vals[1].v)
         [] arg.sel.tag = "list" ->
               IF AllBool(arg.sel.vals) /\ Len(arg.sel.vals) = Len(E0.vals)
               THEN E0.tag # "dict"
               ELSE \A j \in 1..Len(arg.sel.vals) : IsIndexOfE0(arg.sel.vals[j].v)
         [] arg.sel.tag = "dict" ->
               IF AllBool(arg.sel.vals)
               THEN IF E0.tag = "dict" THEN Range(E0.keys) \subseteq Range(arg.sel.keys)
                    ELSE 0..(Len(E0.vals) - 1) \subseteq Range(arg.sel.keys)
               ELSE \A j \in 1..Len(arg.sel.vals) : IsIndexOfE0(arg.sel.vals[j].v)
         [] OTHER -> TRUE

C15Case == op = "getitem" /\ Len(arg.others) = 1 /\ arg.others[1].tag = "int" /\ DomainCase

\* the indices of E0 that the domain selector selects, in the order of E[d]
C15Selected ==
    CASE arg.sel.tag = "int" -> <<arg.sel.vals[1].v>>
      [] arg.sel.tag = "list" ->
            IF AllBool(arg.sel.vals) /\ Len(arg.sel.vals) = Len(E0.vals)
            THEN SelectSeq(RangeSeq(Len(E0.vals)), LAMBDA p : IsTrue(arg.sel.vals[p + 1]))
            ELSE [j \in 1..Len(arg.sel.vals) |-> arg.sel.vals[j].v]
      [] arg.sel.tag = "dict" ->
            IF AllBool(arg.sel.vals)
            THEN SelectSeq(IF E0.tag = "dict" THEN E0.keys ELSE RangeSeq(Len(E0.vals)),
                           LAMBDA k : IsTrue(arg.sel.vals[KeyPos(arg.sel.keys, k)]))
            ELSE [j \in 1..Len(arg.sel.vals) |-> arg.sel.vals[j].v]
      [] OTHER -> IF E0.tag = "dict" THEN KeysInSlice ELSE SlicePositions(arg.sel, Len(E0.vals))

\* the domain is keyed, and the keys of the result then
C15Keyed ==
    \/ arg.sel.tag = "dict" /\ ~AllBool(arg.sel.vals)
    \/ arg.sel.tag \in {"dict", "slice"} /\ E0.tag = "dict"

C15Keys == IF arg.sel.tag = "dict" /\ ~AllBool(arg.sel.vals) THEN arg.sel.keys ELSE C15Selected

\* C15: for a container E of lists and a compound index (d, r): for a single
\* d, E[d, r] is E[d][r]; for a keyed domain it is a keyed container mapping
\* every selected key to the member's r-th entry; otherwise it is a positional
\* container holding member[r] for every selected member in the order of E[d]
\* (so E[:, r] holds m[r] for every member m).  An r out of a selected member's
\* range raises IndexError.  E is unchanged.
C15_CompoundRead ==
    C15Case
    => /\ E = E0
       /\ IF \A k \in 1..Len(C15Selected) : InRange(E0At(C15Selected[k]), RangeIndex)
          THEN /\ ret.err = NoErr
               /\ IF arg.sel.tag = "int"
                  THEN ret.kind = "value" /\ ret.obj.vals[1] = PyAt(E0At(arg.sel.vals[1].v), RangeIndex)
                  ELSE /\ ret.kind = "container"
                       /\ ret.obj.vals = [k \in 1..Len(C15Selected) |-> PyAt(E0At(C15Selected[k]), RangeIndex)]
                       /\ IF C15Keyed
                          THEN ret.obj.cls = "EachMapping" /\ ret.obj.keys = C15Keys
                          ELSE ret.obj.cls = "EachContainer" /\ ret.obj.keys = <<>>
          ELSE Failed("IndexError")

\* each([[11, 12], [21, 22], [31, 32]])[:, 1] is each(12, 22, 32)
C15_Witness ==
    /\ op = "getitem" /\ E0.tag = "list" /\ Len(E0.vals) = 3
    /\ arg.sel = Slice(None, None, None) /\ Len(arg.others) = 1 /\ arg.others[1] = SelInt(1)
    /\ ret.err = NoErr /\ ret.obj.vals = <<12, 22, 32>>

\* ---- C16, C17: compound writes ----

\* the new value of a write, and the range index of a compound write
NewValue == arg.others[Len(arg.others)]

CompoundWrite == op = "setitem" /\ Len(arg.others) = 2

\* C16: for a container E of lists, a single valid position / key i and a
\* valid inner index j, E[i, j] = v for a scalar v raises nothing, sets
\* (E[i])[j] to v and changes nothing else.
C16_SingleCompoundWrite ==
    (/\ CompoundWrite /\ arg.sel.tag = "int" /\ NewValue.tag = "scalar"
     /\ IsIndexOfE0(arg.sel.vals[1].v) /\ InRange(E0At(arg.sel.vals[1].v), RangeIndex))
    => /\ ret.err = NoErr
       /\ E.keys = E0.keys /\ Len(E.vals) = Len(E0.vals)
       /\ \A i \in 1..Len(E0.vals) : \A j \in 1..Len(E0.vals[i]) :
             E.vals[i][j] = IF E0.vals[i] = E0At(arg.sel.vals[1].v) /\ PyAt(E0.vals[i], RangeIndex) = E0.vals[i][j]
                            THEN NewValue.vals[1] ELSE E0.vals[i][j]

\* the value that the k-th selected member receives
PairedValue(k) ==
    IF NewValue.tag = "scalar" \/ Len(NewValue.vals) = 1 THEN NewValue.vals[1] ELSE NewValue.vals[k]

\* the index of E0 (position from 0, or key) of its i-th member
IndexOfE0(i) == IF E0.tag = "dict" THEN E0.keys[i] ELSE i - 1

\* the last k with C15Selected[k] = x
LastSelecting(x) ==
    CHOOSE k \in 1..Len(C15Selected) :
        /\ C15Selected[k] = x
        /\ \A k2 \in (k + 1)..Len(C15Selected) : C15Selected[k2] # x

\* the slot of a member of n entries that the range index names
RangeSlot(n) == IF RangeIndex < 0 THEN n + RangeIndex + 1 ELSE RangeIndex + 1

\* C17: for a container E of lists and a plural domain d (full slice, slice,
\* mask, index list), E[d, r] = v sets m[r] for the k-th member m selected by d
\* to v if v is a scalar, to v's one element if it has one, and to the k-th
\* element of v otherwise (v having an element for each selected member); the
\* members not selected and the other slots of the selected ones are unchanged.
C17_PluralCompoundWrite ==
    (/\ CompoundWrite /\ arg.sel.tag \in {"list", "slice"} /\ DomainCase
     /\ InRange(NestedMember(1), RangeIndex)
     /\ (NewValue.tag = "scalar" \/ Len(NewValue.vals) = 1 \/ Len(NewValue.vals) >= Len(C15Selected)))
    => /\ ret.err = NoErr
       /\ E.keys = E0.keys /\ Len(E.vals) = Len(E0.vals)
       /\ \A i \in 1..Len(E0.vals) : \A j \in 1..Len(E0.vals[i]) :
             E.vals[i][j] = IF IndexOfE0(i) \in Range(C15Selected) /\ j = RangeSlot(Len(E0.vals[i]))
                            THEN PairedValue(LastSelecting(IndexOfE0(i)))
                            ELSE E0.vals[i][j]

\* each([[11, 12], [21, 22], [31, 32]])[[1, 0], -1] = [8, 9]
C17_Witness ==
    /\ CompoundWrite /\ E0.tag = "list" /\ Len(E0.vals) = 3
    /\ arg.sel = Sel("list", <<>>, <<[t |-> "int", v |-> 1], [t |-> "int", v |-> 0]>>)
    /\ arg.others = <<SelInt(-1), Obj("none", "list", <<>>, <<8, 9>>)>>
    /\ ret.err = NoErr
    /\ E.vals = <<(<<11, 9>>), (<<21, 8>>), (<<31, 32>>)>>

\* ---- C18, C19, C20: writes without range indices ----

FlatWrite == op = "setitem" /\ Len(arg.others) = 1

\* the positions / keys that the selector of a write names, in selector order
WriteTargets ==
    IF arg.sel.tag = "list" THEN C13Targets
    ELSE IF AllBool(arg.sel.vals)
    THEN SelectSeq(arg.sel.keys, LAMBDA k : IsTrue(arg.sel.vals[KeyPos(arg.sel.keys, k)]))
    ELSE [j \in 1..Len(arg.sel.vals) |-> arg.sel.vals[j].v]

\* a write through a mask, an index list or a remap into a list or a dict, all
\* of whose targets are positions / keys of E0
TargetedWrite ==
    /\ FlatWrite /\ arg.sel.tag \in {"list", "dict"} /\ E0.tag \in {"list", "dict"}
    /\ \A k \in 1..Len(WriteTargets) : IsIndexOfE0(WriteTargets[k])

\* C18: a write whose value is an iterable of two or more elements, but of
\* fewer elements than there are targets, fails; it never completes having
\* overwritten a prefix of the targets only.
C18_ShortValueFails ==
    (/\ TargetedWrite /\ NewValue.tag # "scalar"
     /\ Len(NewValue.vals) >= 2 /\ Len(NewValue.vals) < Len(WriteTargets))
    => ret.err # NoErr

\* C19: for a positional E over a list and a scalar v, E[a:b:c] = v (E[:] = v
\* included) overwrites exactly the positions of the slice with v, leaves the
\* length and the other positions alone, and raises nothing.
C19_SliceWriteScalar ==
    (/\ FlatWrite /\ arg.sel.tag = "slice" /\ NewValue.tag = "scalar"
     /\ E0.cls = "EachContainer" /\ E0.tag = "list")
    => /\ ret.err = NoErr
       /\ E.vals = [i \in 1..Len(E0.vals) |->
                       IF i - 1 \in Range(SlicePositions(arg.sel, Len(E0.vals)))
                       THEN NewValue.vals[1] ELSE E0.vals[i]]

\* the position from 0 / key that a target names
Normalized(x) == IF E0.tag = "list" /\ x < 0 THEN x + Len(E0.vals) ELSE x

\* the last k whose target names the index x
LastTargeting(x) ==
    CHOOSE k \in 1..Len(WriteTargets) :
        /\ Normalized(WriteTargets[k]) = x
        /\ \A k2 \in (k + 1)..Len(WriteTargets) : Normalized(WriteTargets[k2]) # x

\* C20: for E over a list or a dict, E[sel] = v for a mask, an index list or a
\* remap sel with valid targets overwrites exactly the targets (the positions /
\* keys marked true; the listed indices; the mapping's values) in selector
\* order, v being repeated if it is a scalar or has one element and consumed
\* one element per target otherwise (v having an element for each target);
\* the other slots keep their values and the indices / keys of E are unchanged.
C20_TargetedWrite ==
    (/\ TargetedWrite
     /\ (NewValue.tag = "scalar" \/ Len(NewValue.vals) = 1 \/ Len(NewValue.vals) >= Len(WriteTargets)))
    => /\ ret.err = NoErr
       /\ E.keys = E0.keys /\ Len(E.vals) = Len(E0.vals)
       /\ \A i \in 1..Len(E0.vals) :
             E.vals[i] = IF \E k \in 1..Len(WriteTargets) : Normalized(WriteTargets[k]) = IndexOfE0(i)
                         THEN PairedValue(LastTargeting(IndexOfE0(i)))
                         ELSE E0.vals[i]

\* each([11, 12, 13])[[1, 0]] = [8, 9] leaves [9, 8, 13]
C20_Witness ==
    /\ FlatWrite /\ E0.tag = "list" /\ E0.vals = <<11, 12, 13>>
    /\ arg.sel = Sel("list", <<>>, <<[t |-> "int", v |-> 1], [t |-> "int", v |-> 0]>>)
    /\ NewValue = Obj("none", "list", <<>>, <<8, 9>>)
    /\ ret.err = NoErr /\ E.vals = <<9, 8, 13>>

\* ---- C21: containment duality ----

\* C21: for containers A (of sets) and B (of items), of any lengths,
\* A.contains(B) and B.is_in(A) both fail, or both return containers with the
\* same index domain and equal booleans at every index.
C21_ContainmentDuality ==
    op = "is_in"
    => \/ ret.err # NoErr /\ arg.others[2].err # NoErr
       \/ /\ ret.err = NoErr /\ arg.others[2].err = NoErr
          /\ ret.obj.keys = arg.others[2].obj.keys
          /\ ret.obj.vals = arg.others[2].obj.vals

\* ---- C22, C23: nesting ----

\* the number of levels x distributes over, following first members
RECURSIVE Distribution(_)
Distribution(x) ==
    IF x.k = "each" /\ Len(x.items) > 0 THEN 1 + Distribution(EachContainer_values(x)[1]) ELSE 0

\* the number of list levels of x, following first members
RECURSIVE ListDepth(_)
ListDepth(x) == IF IsIterable(x) /\ Len(x.items) > 0 THEN 1 + ListDepth(x.items[1]) ELSE 0

\* the levels each(C) with the default nesting is to distribute over
OneMore(C) == IF C.k = "each" THEN Distribution(C) + 1 ELSE 1

\* C22: each(C) with the default nested=next distributes over one level more
\* than C did: d + 1 levels for a container C distributing over d levels, one
\* level for a C that is no container (for data that has that many levels).
C22_OneMoreLevel ==
    (op = "each" /\ arg.nested = next /\ arg.enlist /\ ListDepth(E) >= OneMore(arg.prev))
    => Distribution(E) = OneMore(arg.prev)

\* C23: each(x, enlist=False) of a scalar x, a string included, is x itself,
\* so values() of a nested container yields its scalar members unchanged.
C23_ScalarsUnwrapped ==
    /\ (op = "each" /\ ~arg.enlist /\ arg.prev.k \in {"int", "str"}) => E = arg.prev
    /\ (op = "values" /\ (E.nested = next \/ E.nested > 1))
       => \A i \in 1..Len(E.items) : E.items[i].k \in {"int", "str"} => ret[i] = E.items[i]

\* ---- C24, C30: calls ----

\* every argument of the call is a scalar, a one-element sequence or a
\* collection over exactly the indices of E0
ArgsAligned == \A j \in 1..Len(arg.others) : Broadcastable(arg.others[j]) \/ IndexMatched(arg.others[j])

KwargsAligned == \A j \in 1..Len(arg.kwvals) : Broadcastable(arg.kwvals[j]) \/ IndexMatched(arg.kwvals[j])

\* what the i-th member of E0 is to be called with: the i-th aligned value of
\* every positional argument, in order, and every keyword bound to the i-th
\* aligned value of its own argument
CallAt(i) ==
    PyCall(E0.vals[i],
           [j \in 1..Len(arg.others) |-> Aligned(arg.others[j], i)],
           [j \in 1..Len(arg.names) |-> <<arg.names[j], Aligned(arg.kwvals[j], i)>>])

\* C24: E(*args, **kwargs) on a container E of n callables returns a container
\* of n entries whose i-th entry is E[i] called with exactly the p positional
\* arguments, each the i-th aligned value, in order, and exactly the keywords
\* given, each bound to the i-th aligned value of its own argument; scalars and
\* one-element arguments are repeated.
C24_CallDistributes ==
    (op = "call" /\ ArgsAligned /\ KwargsAligned)
    => /\ ret.err = NoErr /\ ret.kind = "container"
       /\ Len(ret.obj.vals) = PyLen(E0)
       /\ \A i \in 1..PyLen(E0) : ret.obj.vals[i] = CallAt(i)
       /\ E = E0

C24_Witness ==
    /\ op = "call" /\ ArgsAligned /\ KwargsAligned
    /\ E0.tag = "list" /\ E0.vals = <<11, 12>>
    /\ Len(arg.others) = 1 /\ arg.others[1].vals = <<20>>
    /\ arg.names = <<"x", "y">>
    /\ arg.kwvals[1].vals = <<40, 41>> /\ arg.kwvals[2].tag = "scalar"
    /\ ret.obj.vals[2] = PyCall(12, <<20>>, << <<"x", 41>>, <<"y", 60>> >>)

\* C30: broadcast_args(fn, args, kwargs) yields one triple (f, a, k) per
\* aligned index: f the member of fn, a the tuple of the len(args) aligned
\* positional values, k the dict of exactly the keys of kwargs, each bound to
\* its aligned value; for any number of positional and keyword arguments.
C30_BroadcastArgsTriples ==
    (op = "broadcast_args" /\ ArgsAligned /\ KwargsAligned)
    => /\ ret.err = NoErr
       /\ Len(ret.tuples) = PyLen(E0)
       /\ \A i \in 1..PyLen(E0) : ret.tuples[i] = CallAt(i)

\* ---- C25, C26, C29: alignment ----

\* the cardinality of a source: 1 for a scalar
SourceSize(s) == IF s.tag = "scalar" THEN 1 ELSE Len(s.vals)

\* the sources that cannot be broadcast: keyed, or of a cardinality other than 1
Unbroadcastable == {j \in 1..Len(arg.others) : IsMapping(arg.others[j]) \/ SourceSize(arg.others[j]) # 1}

\* the position of the source that is to be the model
ModelPosition ==
    IF arg.mf \/ Unbroadcastable = {} THEN 1
    ELSE CHOOSE j \in Unbroadcastable : \A j2 \in Unbroadcastable : j <= j2

\* m is the source s (a scalar s taken as a one-element tuple)
IsSource(m, s) == m.cls = s.cls /\ m.keys = s.keys /\ m.vals = s.vals

\* C25: with match_first the model is sources[0]; without, it is the first
\* source that is keyed or has a cardinality other than 1 (a keyed source of
\* cardinality 1 included), and sources[0] when every source is non-keyed of
\* cardinality 1.  n is the cardinality of the model.
C25_ModelSelection ==
    op = "align"
    => /\ IsSource(ret.model, arg.others[ModelPosition])
       /\ ret.n = SourceSize(arg.others[ModelPosition])

C25_Witness ==
    /\ op = "align" /\ ~arg.mf /\ Len(arg.others) = 3
    /\ arg.others[1].tag = "list" /\ SourceSize(arg.others[1]) = 1
    /\ IsMapping(arg.others[2]) /\ SourceSize(arg.others[2]) = 1
    /\ SourceSize(arg.others[3]) = 3
    /\ ModelPosition = 2 /\ ret.n = 1 /\ ret.model.cls = "EachMapping"

\* the model is keyed and every source is keyed or of cardinality 1
KeyedAlignment ==
    /\ IsMapping(ret.model)
    /\ \A j \in 1..Len(arg.others) : IsMapping(arg.others[j]) \/ SourceSize(arg.others[j]) = 1

\* the keyed sources
KeyedSources == {j \in 1..Len(arg.others) : IsMapping(arg.others[j])}

\* source j has the key k
HasKey(j, k) == KeyPos(arg.others[j].keys, k) > 0

\* a non-keyed source too short for the model: the alignment raises ValueError
\* before anything is read
TooShort == \E j \in 1..Len(arg.others) :
               /\ NonKeyed(arg.others[j])
               /\ SourceSize(arg.others[j]) # 1 /\ SourceSize(arg.others[j]) < ret.n

C29_HandlerRefinesTogether ==
    op = "align"
    => /\ ret.it.tuples = ret.together.tuples
       /\ ret.it.err = ret.together.err
       /\ ret.it.eager = ret.together.eager

C29_Witness ==
    /\ op = "align" /\ arg.mf /\ Len(arg.others) = 3
    /\ ret.it.err = "ValueError" /\ ret.it.eager
    /\ ret.together.err = "ValueError"
    /\ SourceSize(arg.others[1]) = 3 /\ SourceSize(arg.others[3]) = 2

\* ---- C27, C28: in-place operators ----

\* the operand has a value for every index of E0, read in the order of E0
AlignedThroughout ==
    \/ Broadcastable(Operand)
    \/ IndexMatched(Operand)
    \/ NonKeyed(E0) /\ NonKeyed(Operand) /\ PyLen(Operand) >= PyLen(E0)

\* the positions of E0 whose divisor is 0
ZeroAt == {i \in 1..PyLen(E0) : Aligned(Operand, i) = 0}

\* the first of them
FirstZero == CHOOSE i \in ZeroAt : \A i2 \in ZeroAt : i <= i2

\* C27: when the member operation of an in-place operator on a
\* slot-assignable collection fails at the k-th aligned index, the error
\* propagates and the collection is left partly updated: the slots of the
\* k aligned indices before it hold the new values, and every slot from the
\* k-th on holds its original value.
C27_PartialInPlace ==
    (op = "ifloordiv" /\ HasSetItem(E0.tag) /\ AlignedThroughout /\ ZeroAt # {})
    => /\ ret.err = "ZeroDivisionError" /\ ~ret.eager
       /\ E.keys = E0.keys /\ Len(E.vals) = Len(E0.vals)
       /\ \A i \in 1..PyLen(E0) :
             E.vals[i] = IF i < FirstZero THEN E0.vals[i] \div Aligned(Operand, i) ELSE E0.vals[i]

C27_Witness ==
    /\ op = "ifloordiv" /\ E0.tag = "list" /\ E0.vals = <<11, 12, 13>>
    /\ Operand.vals = <<2, 2, 0>>
    /\ ret.err = "ZeroDivisionError"
    /\ E.vals = <<5, 6, 13>>

\* C28: an in-place operator E op= o on a positional slot-assignable E with o a
\* non-keyed sequence of a length above 1 and below len(E) raises ValueError
\* before any slot is overwritten.
C28_ShortOperandInPlace ==
    (/\ op \in {"ifloordiv", "iadd", "isub"}
     /\ E0.tag = "list"
     /\ NonKeyed(Operand) /\ PyLen(Operand) > 1 /\ PyLen(Operand) < PyLen(E0))
    => /\ ret.err = "ValueError" /\ ret.eager
       /\ E = E0

C28_Witness ==
    /\ op = "iadd" /\ E0.tag = "list" /\ E0.vals = <<11, 12, 13>>
    /\ Operand.tag = "list" /\ Operand.vals = <<1, 1>>
    /\ ret.err = "ValueError" /\ ret.eager
    /\ E.vals = <<11, 12, 13>>

====
